---- MODULE Spec2Model ----
(***************************************************************************)
(* Telemetry and auto-control engine of HMI_View_Selector, revision 5.3.1  *)
(* (class ModernApp).  One poller thread per monitored unit runs           *)
(* monitor_unit; the Tk main thread runs the operator handlers             *)
(* (start_monitoring, stop_monitoring, toggle_auto_control, page           *)
(* navigation, set_turbo_threshold, send_register_value).                  *)
(*                                                                         *)
(* Time is counted in ticks of half a second.  time.time() values are not  *)
(* kept; what the code compares is the distance current_time -             *)
(* last_activation, so last_fan_activation holds that distance (ticks      *)
(* since the recorded activation), saturating at the cooldown.             *)
(*                                                                         *)
(* Only Prime (230xx) units are modelled; the LFPC branch of monitor_unit  *)
(* issues no write and is left out.                                        *)
(***************************************************************************)
EXTENDS Integers, Sequences, FiniteSets, TLC

VARIABLES
    monitoring_active,      \* self.monitoring_active
    auto_control_active,    \* self.auto_control_active
    turbo_temp_threshold,   \* self.turbo_temp_threshold
    auto_threshold,         \* self.auto_threshold
    maintenance_mode_active,\* self.maintenance_mode_active or self.master_maintenance_mode
    units_info,             \* self.units_info: sequence of unit addresses
    monitor_threads,        \* self.monitor_threads: sequence of thread ids
    threads,                \* the poller threads: thread id -> frame of monitor_unit
    last_fan_activation,    \* self.last_fan_activation: unit -> ticks since the recorded activation
    display,                \* the widgets of each unit: its frame on the monitor page,
                            \* and the Acknowledge button and the gas pressure
                            \* label of its overview popup
    alert_acknowledged,     \* unit['alert_acknowledged']
    bg_flash_state,         \* widgets['bg_flash_state']
    page,                   \* which page self.current_frame shows
    was_monitoring_before_navigation, \* self.was_monitoring_before_navigation
    pending_start,          \* a root.after(100, self.start_monitoring) callback is queued
    ui,                     \* the Tk main thread: idle, or inside stop_monitoring's join loop
    wire,                   \* the register write issued by the last step, if any
    since_fan_write,        \* unit -> ticks since the last automatic fan write was issued
    config_file,            \* config.json: the persisted turbo_temp_threshold
    entry,                  \* text of the entry widget the running handler reads
    sp,                     \* send_register_value: position and the writes it has sent
    feed,                   \* scripted temperature readings still to be served
    cycle,                  \* number of poll cycles begun by the scripted poller
    connection_pool,        \* self.connection_pool of revision 5.2.1: unit -> state of its client
    users,                  \* self.users: user name -> record, or NoUser
    current_user,           \* self.current_user
    current_user_role       \* self.current_user_role

vars == <<monitoring_active, auto_control_active, turbo_temp_threshold,
          auto_threshold, maintenance_mode_active, units_info, monitor_threads,
          threads, last_fan_activation, display, alert_acknowledged,
          bg_flash_state, page, was_monitoring_before_navigation,
          pending_start, ui, wire, since_fan_write,
          config_file, entry, sp, feed, cycle,
          connection_pool, users, current_user, current_user_role>>

(***************************************************************************)
(* Program constants                                                       *)
(***************************************************************************)
PollTicks == 3              \* time.sleep(1.5)
JoinTicks == 3              \* thread.join(1.5)
CooldownTicks == 20         \* current_time - last_activation >= 10.0
FanRegister == 1000         \* register 401000
FanOnValue == 100
ArmRegister == 509          \* register 400509
ArmValue == 3
SetpointRegister == 1212    \* register 401212
SetpointMin == 50
SetpointMax == 100
ThresholdMin == 950
ThresholdMax == 1050
DefaultThreshold == 1050
BatteryLow == 50
FlashPeriod == 4            \* flash_counter = (flash_counter + 1) % 4

(***************************************************************************)
(* Outcomes of a transport call other than a register value (>= 0)         *)
(***************************************************************************)
Err == -1                   \* the result object answers isError()
Exc == -2                   \* the call raises
Hang == -3                  \* the call never returns
Dashes == -4                \* a label showing "---"
Unbound == -5               \* a local variable not yet assigned

(***************************************************************************)
(* Bounds of the model                                                     *)
(***************************************************************************)
MaxThreads == 2             \* poller frames that can exist at once
MaxLen == 4                  \* longest text typed into an entry

ThreadIds == 1..MaxThreads
AllUnits == {1, 2}

Min(a, b) == IF a < b THEN a ELSE b
Max(a, b) == IF a > b THEN a ELSE b
Range(s) == {s[i] : i \in 1..Len(s)}

\* Python's None, for self.current_user and self.current_user_role
None == "None"

\* the user names of the model; NoUser marks a name that is not in self.users
UserNames == {"admin", "alice", "bob", "carol"}

NoUser == [role |-> None, active |-> FALSE]

\* default_config["users"]: the one administrator a fresh config.json holds
DefaultUsers ==
    [n \in UserNames |-> IF n = "admin" THEN [role |-> "admin", active |-> TRUE]
                          ELSE NoUser]

NoThread == [unit |-> 0, pc |-> "unborn", turbo_temp |-> Unbound,
             flash_counter |-> 0, sleepLeft |-> 0, captured |-> 0,
             stale |-> FALSE, socket_open |-> FALSE]

NewWidgets == [turbo |-> Dashes, battery |-> Dashes, battery_bg |-> "dark",
               setpoint |-> Dashes, status_light |-> "gray",
               control_button |-> "blue", frame_bg |-> "dark",
               ack_button |-> FALSE,
               popup |-> FALSE, gas_psi |-> Dashes, gas_psi_fg |-> "green",
               gas_psi_flash_state |-> FALSE]

NoWrite == [unit |-> 0, register |-> 0, value |-> 0, auto |-> FALSE, gap |-> 0]

UiIdle == [pc |-> "idle", i |-> 0, active_threads |-> <<>>, joinLeft |-> 0,
           cont |-> "none", report |-> <<>>]

SpIdle == [pc |-> "idle", input |-> <<>>, value |-> 0, sent |-> <<>>,
           tried |-> FALSE, opened |-> FALSE]

is_alive(t) == threads[t].pc \notin {"unborn", "done"}

(***************************************************************************)
(* monitor_unit: one step per transport call of a poll cycle.  r is the    *)
(* outcome of the call: a register value, or Err, Exc, Hang.               *)
(***************************************************************************)

\* an update that lands on the widgets of every unit
ShownEverywhere(t, w) == [u \in AllUnits |-> w]

\* what thread t's root.after(0, safe_widget_update ...) leaves on screen:
\* nothing once its widgets are destroyed
Shown(t, w) ==
    IF threads[t].stale THEN display
    ELSE [display EXCEPT ![threads[t].unit] = w]

\* except Exception: reset displays on error
ResetDisplays(w) ==
    [w EXCEPT !.turbo = Dashes, !.battery = Dashes, !.setpoint = Dashes,
              !.status_light = "gray", !.control_button = "blue"]

\* a frame that goes to sleep where it should leave monitor_unit
ExitedNever(t) == [threads[t] EXCEPT !.pc = "sleep", !.sleepLeft = PollTicks]

\* a frame that has left monitor_unit: the Thread object stays in
\* monitor_threads until the list is replaced
Exited(t) ==
    IF t \in Range(monitor_threads) THEN [NoThread EXCEPT !.pc = "done"]
    ELSE NoThread

\* UNCHANGED for everything a poller step never touches
PollerFrame ==
    UNCHANGED <<monitoring_active, auto_control_active, turbo_temp_threshold,
                auto_threshold, maintenance_mode_active, units_info,
                monitor_threads, page, was_monitoring_before_navigation,
                pending_start, ui, config_file, entry, sp,
                connection_pool, users, current_user, current_user_role>>

\* the call raised: run the handler, then the finally clause
Raise(t) ==
    /\ threads' = [threads EXCEPT ![t].pc = "endcycle"]
    /\ display' = Shown(t, ResetDisplays(display[threads[t].unit]))

\* the call never returns
Block(t) ==
    /\ threads' = [threads EXCEPT ![t].pc = "hung"]
    /\ UNCHANGED display

\* while self.monitoring_active: / if not self.monitoring_active: break
LoopTop(t) ==
    /\ threads[t].pc = "loop"
    /\ threads' = [threads EXCEPT ![t] =
                      IF monitoring_active THEN [@ EXCEPT !.pc = "connect"]
                      ELSE Exited(t)]
    /\ cycle' = IF monitoring_active /\ feed # <<>> THEN cycle + 1 ELSE cycle
    /\ wire' = NoWrite
    /\ UNCHANGED <<last_fan_activation, display, alert_acknowledged,
                   bg_flash_state, since_fan_write, feed>>
    /\ PollerFrame

\* client = ModbusTcpClient(ip); if client.connect():
\* r = 1 connected, 0 not connected
Connect(t, r) ==
    /\ threads[t].pc = "connect"
    /\ CASE r = 1 -> /\ threads' = [threads EXCEPT ![t].pc = "turbo",
                                                     ![t].socket_open = TRUE]
                      /\ UNCHANGED display
         [] r = 0 -> /\ threads' = [threads EXCEPT ![t].pc = "endcycle"]
                      /\ UNCHANGED display
         [] r = Exc -> Raise(t)
         [] OTHER -> Block(t)
    /\ wire' = NoWrite
    /\ UNCHANGED <<last_fan_activation, alert_acknowledged, bg_flash_state,
                   since_fan_write, feed, cycle>>
    /\ PollerFrame

\* turbo_result = client.read_input_registers(address=2075, count=1)
ReadTurbo(t, r) ==
    LET u == threads[t].unit IN
    /\ threads[t].pc = "turbo"
    /\ CASE r >= 0 ->
              /\ threads' = [threads EXCEPT ![t].pc = "battery", ![t].turbo_temp = r]
              /\ display' = Shown(t, [display[u] EXCEPT !.turbo = r])
         [] r = Err ->
              /\ threads' = [threads EXCEPT ![t].pc = "battery"]
              /\ UNCHANGED display
         [] r = Exc -> Raise(t)
         [] OTHER -> Block(t)
    /\ feed' = IF feed # <<>> THEN Tail(feed) ELSE feed
    /\ wire' = NoWrite
    /\ UNCHANGED <<last_fan_activation, alert_acknowledged, bg_flash_state,
                   since_fan_write, cycle>>
    /\ PollerFrame

\* battery_result = client.read_input_registers(address=2027, count=1)
ReadBattery(t, r) ==
    LET u == threads[t].unit
        fc == (threads[t].flash_counter + 1) % FlashPeriod
    IN
    /\ threads[t].pc = "battery"
    /\ CASE r >= 0 /\ r < BatteryLow ->
              /\ threads' = [threads EXCEPT ![t].pc = "setpoint", ![t].flash_counter = fc]
              /\ display' = Shown(t, [display[u] EXCEPT !.battery = r,
                                   !.battery_bg = IF fc < 2 THEN "red" ELSE "dark"])
         [] r >= BatteryLow ->
              /\ threads' = [threads EXCEPT ![t].pc = "setpoint"]
              /\ display' = Shown(t, [display[u] EXCEPT !.battery = r, !.battery_bg = "dark"])
         [] r = Err ->
              /\ threads' = [threads EXCEPT ![t].pc = "setpoint"]
              /\ UNCHANGED display
         [] r = Exc -> Raise(t)
         [] OTHER -> Block(t)
    /\ wire' = NoWrite
    /\ UNCHANGED <<last_fan_activation, alert_acknowledged, bg_flash_state,
                   since_fan_write, feed, cycle>>
    /\ PollerFrame

\* setting_result = client.read_holding_registers(address=1212, count=1),
\* only with SP controls active and a setpoint label on the page
ReadSetpoint(t, r) ==
    LET u == threads[t].unit IN
    /\ threads[t].pc = "setpoint"
    /\ CASE ~maintenance_mode_active \/ r = Err ->
              /\ threads' = [threads EXCEPT ![t].pc = "auto"]
              /\ UNCHANGED display
         [] maintenance_mode_active /\ r >= 0 ->
              /\ threads' = [threads EXCEPT ![t].pc = "auto"]
              /\ display' = Shown(t, [display[u] EXCEPT !.setpoint = r])
         [] maintenance_mode_active /\ r = Exc -> Raise(t)
         [] OTHER -> Block(t)
    /\ wire' = NoWrite
    /\ UNCHANGED <<last_fan_activation, alert_acknowledged, bg_flash_state,
                   since_fan_write, feed, cycle>>
    /\ PollerFrame

\* a trigger that leaves equality out
TriggeredStrict(temp, threshold) == temp > threshold

\* a trigger that an acknowledged alert switches off
TriggeredUnlessAcknowledged(temp, threshold) ==
    temp >= threshold /\ \A u \in AllUnits : ~alert_acknowledged[u]

\* if self.auto_control_active and turbo_temp >= self.turbo_temp_threshold:
Triggered(temp, threshold) == temp >= threshold

\* a cooldown that is over after one poll interval
CooldownElapsedEarly(age) == age >= PollTicks

\* if current_time - last_activation >= 10.0:
CooldownElapsed(age) == age >= CooldownTicks

\* an auto-control decision that never looks at auto_control_active
AutoControlUnconditional(t) ==
    LET u == threads[t].unit
        temp == threads[t].turbo_temp
    IN
    /\ threads[t].pc = "auto"
    /\ CASE temp = Unbound ->
              /\ Raise(t)
              /\ UNCHANGED <<wire, since_fan_write>>
         [] temp # Unbound
               /\ ~(Triggered(temp, turbo_temp_threshold)
                     /\ CooldownElapsed(last_fan_activation[u])) ->
              /\ threads' = [threads EXCEPT ![t].pc = "plc"]
              /\ UNCHANGED <<display, wire, since_fan_write>>
         [] OTHER ->
              /\ threads' = [threads EXCEPT ![t].pc = "fanwrite", ![t].captured = 0]
              /\ wire' = [unit |-> u, register |-> FanRegister, value |-> FanOnValue,
                           auto |-> TRUE, gap |-> since_fan_write[u]]
              /\ since_fan_write' = [since_fan_write EXCEPT ![u] = 0]
              /\ UNCHANGED display
    /\ UNCHANGED <<last_fan_activation, alert_acknowledged, bg_flash_state,
                   feed, cycle>>
    /\ PollerFrame

\* the auto-control decision of a cycle; when it fires, the write of 100 to
\* register 401000 goes out and the thread waits for the answer
AutoControl(t) ==
    LET u == threads[t].unit
        temp == threads[t].turbo_temp
    IN
    /\ threads[t].pc = "auto"
    /\ CASE ~auto_control_active ->
              /\ threads' = [threads EXCEPT ![t].pc = "plc"]
              /\ UNCHANGED <<display, wire, since_fan_write>>
         [] auto_control_active /\ temp = Unbound ->
              \* NameError: turbo_temp was never assigned
              /\ Raise(t)
              /\ UNCHANGED <<wire, since_fan_write>>
         [] auto_control_active /\ temp # Unbound
               /\ ~(Triggered(temp, turbo_temp_threshold)
                     /\ CooldownElapsed(last_fan_activation[u])) ->
              /\ threads' = [threads EXCEPT ![t].pc = "plc"]
              /\ UNCHANGED <<display, wire, since_fan_write>>
         [] OTHER ->
              /\ threads' = [threads EXCEPT ![t].pc = "fanwrite", ![t].captured = 0]
              /\ wire' = [unit |-> u, register |-> FanRegister, value |-> FanOnValue,
                           auto |-> TRUE, gap |-> since_fan_write[u]]
              /\ since_fan_write' = [since_fan_write EXCEPT ![u] = 0]
              /\ UNCHANGED display
    /\ UNCHANGED <<last_fan_activation, alert_acknowledged, bg_flash_state,
                   feed, cycle>>
    /\ PollerFrame

\* the last activation recorded after a fan write answered r
Recorded(r, age, captured) == IF r >= 0 THEN captured ELSE age

\* fan_result = client.write_register(address=1000, value=100) answers
FanWriteResult(t, r) ==
    LET u == threads[t].unit IN
    /\ threads[t].pc = "fanwrite"
    /\ CASE r >= 0 \/ r = Err ->
              /\ threads' = [threads EXCEPT ![t].pc = "plc", ![t].captured = 0]
              /\ UNCHANGED display
         [] r = Exc ->
              /\ threads' = [threads EXCEPT ![t].pc = "endcycle", ![t].captured = 0]
              /\ display' = Shown(t, ResetDisplays(display[u]))
         [] OTHER -> Block(t)
    /\ last_fan_activation' = [last_fan_activation EXCEPT ![u] =
                                  Recorded(r, @, threads[t].captured)]
    /\ wire' = NoWrite
    /\ UNCHANGED <<alert_acknowledged, bg_flash_state, since_fan_write, feed, cycle>>
    /\ PollerFrame

\* plc_result = client.read_input_registers(address=5, count=1): bit 2
ReadPLC(t, r) ==
    LET u == threads[t].unit
        fc == (threads[t].flash_counter + 1) % FlashPeriod
        plc_bit_set == r >= 0 /\ (r \div 4) % 2 = 1
    IN
    /\ threads[t].pc = "plc"
    /\ CASE plc_bit_set ->
              /\ threads' = [threads EXCEPT ![t].pc = "fan", ![t].flash_counter = fc]
              /\ display' = Shown(t, [display[u] EXCEPT
                                   !.status_light = IF fc < 2 THEN "red" ELSE "green"])
         [] ~plc_bit_set /\ (r >= 0 \/ r = Err) ->
              /\ threads' = [threads EXCEPT ![t].pc = "fan"]
              /\ display' = Shown(t, [display[u] EXCEPT !.status_light = "green"])
         [] r = Exc -> Raise(t)
         [] OTHER -> Block(t)
    /\ wire' = NoWrite
    /\ UNCHANGED <<last_fan_activation, alert_acknowledged, bg_flash_state,
                   since_fan_write, feed, cycle>>
    /\ PollerFrame

\* response = client.read_holding_registers(address=1000, count=1)
ReadFan(t, r) ==
    LET u == threads[t].unit
        fc == (threads[t].flash_counter + 1) % FlashPeriod
    IN
    /\ threads[t].pc = "fan"
    /\ CASE r = FanOnValue ->
              /\ threads' = [threads EXCEPT ![t].pc = "params", ![t].flash_counter = fc]
              /\ display' = Shown(t, [display[u] EXCEPT
                                   !.control_button = IF fc < 2 THEN "red" ELSE "darkred"])
         [] r >= 0 /\ r # FanOnValue ->
              /\ threads' = [threads EXCEPT ![t].pc = "params"]
              /\ display' = Shown(t, [display[u] EXCEPT !.control_button = "blue"])
         [] r = Err ->
              /\ threads' = [threads EXCEPT ![t].pc = "params"]
              /\ UNCHANGED display
         [] r = Exc -> Raise(t)
         [] OTHER -> Block(t)
    /\ wire' = NoWrite
    /\ UNCHANGED <<last_fan_activation, alert_acknowledged, bg_flash_state,
                   since_fan_write, feed, cycle>>
    /\ PollerFrame

\* the test of the parameters with the gas pressure's caution band left out
has_red_params_fault_only(p) ==
    \/ p.rpm >= 0 /\ p.rpm < 1200
    \/ p.envolts >= 0 /\ p.envolts # 5
    \/ p.pe_oil >= 0 /\ p.pe_oil < 34
    \/ p.gb_oil >= 0 /\ p.gb_oil < 34
    \/ p.gas_psi >= 0 /\ p.gas_psi < 85

\* the five parameter reads behind the unit frame's background: engine RPM
\* (370), Envolts state (2044), PE oil rate (494), GB oil rate (2033) and gas
\* PSI (2035); p holds the outcome of each, the oil rates as decoded
has_red_params(p) ==
    \/ p.rpm >= 0 /\ p.rpm < 1200
    \/ p.envolts >= 0 /\ p.envolts # 5
    \/ p.pe_oil >= 0 /\ p.pe_oil < 34
    \/ p.gb_oil >= 0 /\ p.gb_oil < 34
    \/ p.gas_psi >= 0 /\ p.gas_psi < 100

\* the first of the five calls that does not come back with a result
FirstAbnormal(p) ==
    LET rs == <<p.rpm, p.envolts, p.pe_oil, p.gb_oil, p.gas_psi>>
        bad == {i \in 1..5 : rs[i] \in {Exc, Hang}}
    IN IF bad = {} THEN 0
       ELSE rs[CHOOSE i \in bad : \A j \in bad : i <= j]

ReadParams(t, p) ==
    LET u == threads[t].unit
        live == ~threads[t].stale
    IN
    /\ threads[t].pc = "params"
    /\ CASE FirstAbnormal(p) = Exc ->
              /\ Raise(t)
              /\ UNCHANGED <<alert_acknowledged, bg_flash_state>>
         [] FirstAbnormal(p) = Hang ->
              /\ Block(t)
              /\ UNCHANGED <<alert_acknowledged, bg_flash_state>>
         [] FirstAbnormal(p) = 0 /\ has_red_params(p) /\ alert_acknowledged[u] ->
              /\ threads' = [threads EXCEPT ![t].pc = "endcycle"]
              /\ display' = Shown(t, [display[u] EXCEPT !.frame_bg = "solidred"])
              /\ UNCHANGED <<alert_acknowledged, bg_flash_state>>
         [] FirstAbnormal(p) = 0 /\ has_red_params(p) /\ ~alert_acknowledged[u] ->
              /\ threads' = [threads EXCEPT ![t].pc = "endcycle"]
              /\ bg_flash_state' = IF live THEN [bg_flash_state EXCEPT ![u] = ~@]
                                    ELSE bg_flash_state
              /\ display' = Shown(t, [display[u] EXCEPT
                                   !.frame_bg = IF ~bg_flash_state[u] THEN "red" ELSE "dark"])
              /\ UNCHANGED alert_acknowledged
         [] OTHER ->
              /\ threads' = [threads EXCEPT ![t].pc = "endcycle"]
              /\ display' = Shown(t, [display[u] EXCEPT !.frame_bg = "dark"])
              /\ alert_acknowledged' = IF live THEN [alert_acknowledged EXCEPT ![u] = FALSE]
                                        ELSE alert_acknowledged
              /\ UNCHANGED bg_flash_state
    /\ wire' = NoWrite
    /\ UNCHANGED <<last_fan_activation, since_fan_write, feed, cycle>>
    /\ PollerFrame

\* finally: client.close() (socket_open is the state of the cycle's client);
\* if not self.monitoring_active: break;
\* time.sleep(1.5)
EndCycle(t) ==
    /\ threads[t].pc = "endcycle"
    /\ threads' = [threads EXCEPT ![t] =
                      IF monitoring_active
                      THEN [@ EXCEPT !.pc = "sleep", !.sleepLeft = PollTicks,
                                     !.socket_open = FALSE]
                      ELSE Exited(t)]
    /\ wire' = NoWrite
    /\ UNCHANGED <<last_fan_activation, display, alert_acknowledged,
                   bg_flash_state, since_fan_write, feed, cycle>>
    /\ PollerFrame

\* time.sleep(1.5) returns
Wake(t) ==
    /\ threads[t].pc = "sleep"
    /\ threads[t].sleepLeft = 0
    /\ threads' = [threads EXCEPT ![t].pc = "loop"]
    /\ wire' = NoWrite
    /\ UNCHANGED <<last_fan_activation, display, alert_acknowledged,
                   bg_flash_state, since_fan_write, feed, cycle>>
    /\ PollerFrame

(***************************************************************************)
(* Half a second passes.  Time passes while every running poller sleeps or *)
(* waits inside a slow transport call, and the main thread is idle or      *)
(* waits in a join; the other steps take no time, so a poller that can     *)
(* move does so before a sleep or a join timeout runs out.                 *)
(***************************************************************************)
SlowCalls == {"fanwrite", "transfer"}

Waiting(t) ==
    \/ threads[t].pc \in {"unborn", "done", "hung"} \cup SlowCalls
    \/ threads[t].pc = "sleep" /\ threads[t].sleepLeft > 0

Tick ==
    /\ \A t \in ThreadIds : Waiting(t)
    /\ ui.pc # "join_next"
    /\ ui.pc = "joining" => ui.joinLeft > 0 /\ is_alive(monitor_threads[ui.i])
    /\ threads' = [t \in ThreadIds |->
                      [threads[t] EXCEPT
                          !.sleepLeft = Max(0, @ - 1),
                          !.captured = IF threads[t].pc = "fanwrite"
                                       THEN Min(CooldownTicks, @ + 1) ELSE @]]
    /\ last_fan_activation' = [u \in AllUnits |->
                                  Min(CooldownTicks, last_fan_activation[u] + 1)]
    /\ since_fan_write' = [u \in AllUnits |-> Min(CooldownTicks, since_fan_write[u] + 1)]
    /\ ui' = [ui EXCEPT !.joinLeft = Max(0, @ - 1)]
    /\ wire' = NoWrite
    /\ UNCHANGED <<monitoring_active, auto_control_active, turbo_temp_threshold,
                   auto_threshold, maintenance_mode_active, units_info,
                   monitor_threads, display, alert_acknowledged, bg_flash_state,
                   page, was_monitoring_before_navigation, pending_start,
                   config_file, entry, sp, feed, cycle,
                   connection_pool, users, current_user, current_user_role>>

(***************************************************************************)
(* The Tk main thread.  Handlers run one at a time; stop_monitoring keeps  *)
(* the main thread inside its join loop while the pollers go on running.   *)
(***************************************************************************)
FreeIds == {t \in ThreadIds : threads[t].pc = "unborn"}

\* the k-th free frame, lowest id first
NthFree(k) == CHOOSE t \in FreeIds : Cardinality({x \in FreeIds : x < t}) = k - 1

\* for unit in self.units_info: threading.Thread(target=self.monitor_unit...)
Spawned ==
    [t \in ThreadIds |->
        IF \E k \in 1..Len(units_info) : NthFree(k) = t
        THEN LET k == CHOOSE k \in 1..Len(units_info) : NthFree(k) = t
             IN [NoThread EXCEPT !.pc = "loop", !.unit = units_info[k]]
        ELSE threads[t]]

\* start_monitoring; the buttons it configures exist on the monitor page only
start_monitoring ==
    IF monitoring_active
    THEN UNCHANGED <<monitoring_active, threads, monitor_threads>>
    ELSE /\ monitoring_active' = TRUE
         /\ IF page = "monitor"
            THEN /\ threads' = Spawned
                 /\ monitor_threads' = monitor_threads \o
                        [k \in 1..Len(units_info) |-> NthFree(k)]
            ELSE \* self.start_button.config raises TclError
                 UNCHANGED <<threads, monitor_threads>>

\* room in the model for the frames start_monitoring spawns
CanSpawn == monitoring_active \/ page # "monitor"
               \/ Cardinality(FreeIds) >= Len(units_info)

UiFrame ==
    UNCHANGED <<turbo_temp_threshold, auto_threshold, maintenance_mode_active,
                units_info, last_fan_activation, since_fan_write, config_file,
                entry, sp, feed, cycle,
                connection_pool, users, current_user, current_user_role>>

\* the operator presses Start Monitoring
StartButton ==
    /\ ui.pc = "idle" /\ page = "monitor" /\ CanSpawn
    /\ start_monitoring
    /\ wire' = NoWrite
    /\ UNCHANGED <<auto_control_active, display, alert_acknowledged, bg_flash_state,
                   page, was_monitoring_before_navigation, pending_start, ui>>
    /\ UiFrame

\* the callback queued by root.after(100, self.start_monitoring) runs
DelayedStart ==
    /\ ui.pc = "idle" /\ pending_start /\ CanSpawn
    /\ pending_start' = FALSE
    /\ start_monitoring
    /\ wire' = NoWrite
    /\ UNCHANGED <<auto_control_active, display, alert_acknowledged, bg_flash_state,
                   page, was_monitoring_before_navigation, ui>>
    /\ UiFrame

\* toggle_auto_control
toggle_auto_control ==
    /\ ui.pc = "idle" /\ page = "monitor"
    /\ auto_control_active \/ CanSpawn
    /\ auto_control_active' = ~auto_control_active
    /\ IF ~auto_control_active
       THEN start_monitoring
       ELSE UNCHANGED <<monitoring_active, threads, monitor_threads>>
    /\ wire' = NoWrite
    /\ UNCHANGED <<display, alert_acknowledged, bg_flash_state, page,
                   was_monitoring_before_navigation, pending_start, ui>>
    /\ UiFrame

\* the widgets of the page are destroyed: every running poller now updates
\* nothing
Orphaned(th) ==
    [t \in ThreadIds |-> IF th[t].pc \in {"unborn", "done"} THEN th[t]
                          ELSE [th[t] EXCEPT !.stale = TRUE]]

\* self.monitor_threads = []: the Thread objects of finished pollers go
Dropped(th) ==
    [t \in ThreadIds |-> IF th[t].pc = "done" THEN NoThread ELSE th[t]]

\* the rest of the handler that called stop_monitoring, run once it has
\* returned; was is self.was_monitoring_before_navigation
Continue(cont, was) ==
    CASE cont = "monitor_page" ->
           \* create_monitor_page: rebuild the page and the unit dictionaries
           /\ page' = "monitor"
           /\ threads' = Orphaned(Dropped(threads))
           /\ display' = [u \in AllUnits |-> NewWidgets]
           /\ alert_acknowledged' = [u \in AllUnits |-> FALSE]
           /\ bg_flash_state' = [u \in AllUnits |-> FALSE]
           /\ pending_start' = (pending_start \/ was)
      [] cont = "back_to_main" ->
           \* back_to_main, then load_existing_configuration
           /\ page' = "main"
           /\ threads' = Orphaned(Dropped(threads))
           /\ UNCHANGED <<display, alert_acknowledged, bg_flash_state, pending_start>>
      [] OTHER ->
           /\ threads' = Dropped(threads)
           /\ UNCHANGED <<page, display, alert_acknowledged, bg_flash_state,
                          pending_start>>

\* stop_monitoring called from handler cont: with monitoring active it lowers
\* the flag and enters the join loop; otherwise it returns at once and the
\* handler goes on
stop_monitoring(cont) ==
    IF monitoring_active
    THEN /\ monitoring_active' = FALSE
         /\ ui' = [pc |-> "join_next", i |-> 1, active_threads |-> <<>>,
                   joinLeft |-> 0, cont |-> cont, report |-> ui.report]
         /\ UNCHANGED <<monitor_threads, threads, page, display, alert_acknowledged,
                        bg_flash_state, pending_start>>
    ELSE /\ Continue(cont, FALSE)
         /\ monitor_threads' = IF cont = "back_to_main" THEN <<>> ELSE monitor_threads
         /\ UNCHANGED <<monitoring_active, ui>>

\* the operator presses Stop Monitoring
StopButton ==
    /\ ui.pc = "idle" /\ page = "monitor"
    /\ stop_monitoring("none")
    /\ wire' = NoWrite
    /\ UNCHANGED <<auto_control_active, was_monitoring_before_navigation>>
    /\ UiFrame

\* for thread in self.monitor_threads: if thread.is_alive(): thread.join(1.5)
JoinNext ==
    /\ ui.pc = "join_next"
    /\ ui.i <= Len(monitor_threads)
    /\ ui' = IF is_alive(monitor_threads[ui.i])
             THEN [ui EXCEPT !.pc = "joining", !.joinLeft = JoinTicks]
             ELSE [ui EXCEPT !.i = @ + 1]
    /\ wire' = NoWrite
    /\ UNCHANGED <<monitoring_active, auto_control_active, monitor_threads, threads,
                   display, alert_acknowledged, bg_flash_state, page,
                   was_monitoring_before_navigation, pending_start>>
    /\ UiFrame

\* a report that lists every joined thread, ended or not
JoinedAll(active, t) == Append(active, t)

\* the threads active_threads holds after join(1.5) on thread t came back
Joined(active, t) == IF is_alive(t) THEN Append(active, t) ELSE active

\* a join without timeout
JoinOverForever(t, left) == ~is_alive(t)

\* thread.join(1.5) is over: the thread has ended, or the timeout has run
\* out on a thread that is still asleep or inside a call
JoinOver(t, left) == ~is_alive(t) \/ (left = 0 /\ Waiting(t))

\* thread.join(1.5) returns
JoinReturn ==
    LET t == monitor_threads[ui.i] IN
    /\ ui.pc = "joining"
    /\ JoinOver(t, ui.joinLeft)
    /\ ui' = [ui EXCEPT !.pc = "join_next", !.i = @ + 1, !.joinLeft = 0,
                         !.active_threads = Joined(@, t)]
    /\ wire' = NoWrite
    /\ UNCHANGED <<monitoring_active, auto_control_active, monitor_threads, threads,
                   display, alert_acknowledged, bg_flash_state, page,
                   was_monitoring_before_navigation, pending_start>>
    /\ UiFrame

\* the loop is over: the warning is printed, self.monitor_threads = [] and
\* stop_monitoring returns to its caller
StopReturn ==
    /\ ui.pc = "join_next"
    /\ ui.i > Len(monitor_threads)
    /\ monitor_threads' = <<>>
    /\ ui' = [UiIdle EXCEPT !.report = ui.active_threads]
    /\ Continue(ui.cont, was_monitoring_before_navigation)
    /\ wire' = NoWrite
    /\ UNCHANGED <<monitoring_active, auto_control_active,
                   was_monitoring_before_navigation>>
    /\ UiFrame

\* create_monitor_page, reached from the main page and the maintenance pages
create_monitor_page ==
    /\ ui.pc = "idle" /\ page # "monitor"
    /\ was_monitoring_before_navigation' = monitoring_active
    /\ stop_monitoring("monitor_page")
    /\ wire' = NoWrite
    /\ UNCHANGED auto_control_active
    /\ UiFrame

\* back_to_main, the Back button of the monitor page
back_to_main ==
    /\ ui.pc = "idle" /\ page = "monitor"
    /\ was_monitoring_before_navigation' = FALSE
    /\ auto_control_active' = FALSE
    /\ stop_monitoring("back_to_main")
    /\ wire' = NoWrite
    /\ UiFrame

\* create_password_page, the Maintenance button of the monitor page: the
\* page goes, the pollers stay
create_password_page ==
    /\ ui.pc = "idle" /\ page = "monitor"
    /\ auto_control_active' = FALSE
    /\ page' = "password"
    /\ threads' = Orphaned(threads)
    /\ wire' = NoWrite
    /\ UNCHANGED <<monitoring_active, monitor_threads, display, alert_acknowledged,
                   bg_flash_state, was_monitoring_before_navigation, pending_start, ui>>
    /\ UiFrame

(***************************************************************************)
(* The engine with one Prime unit: a poller, the operator's start, stop    *)
(* and auto-control buttons, and a device whose temperature reads, fan     *)
(* writes and connection may fail.                                         *)
(***************************************************************************)
NormalParams == [rpm |-> 1500, envolts |-> 5, pe_oil |-> 40, gb_oil |-> 40,
                 gas_psi |-> 120]

ConnectResults == {1, 0, Exc}
TurboResults == {1049, 1050, Err}
FanWriteResults == {0, Err}

Init ==
    /\ monitoring_active = FALSE
    /\ auto_control_active = FALSE
    /\ turbo_temp_threshold = DefaultThreshold
    /\ auto_threshold = DefaultThreshold
    /\ maintenance_mode_active = FALSE
    /\ units_info = <<1>>
    /\ monitor_threads = <<>>
    /\ threads = [t \in ThreadIds |-> NoThread]
    /\ last_fan_activation = [u \in AllUnits |-> CooldownTicks]
    /\ display = [u \in AllUnits |-> NewWidgets]
    /\ alert_acknowledged = [u \in AllUnits |-> FALSE]
    /\ bg_flash_state = [u \in AllUnits |-> FALSE]
    /\ page = "main"
    /\ was_monitoring_before_navigation = FALSE
    /\ pending_start = FALSE
    /\ ui = UiIdle
    /\ wire = NoWrite
    /\ since_fan_write = [u \in AllUnits |-> CooldownTicks]
    /\ config_file = DefaultThreshold
    /\ entry = <<>>
    /\ sp = SpIdle
    /\ feed = <<>>
    /\ cycle = 0
    /\ connection_pool = [u \in AllUnits |-> "absent"]
    /\ users = DefaultUsers
    /\ current_user = None
    /\ current_user_role = None

Next ==
    \/ \E t \in ThreadIds : LoopTop(t)
    \/ \E t \in ThreadIds, r \in ConnectResults : Connect(t, r)
    \/ \E t \in ThreadIds, r \in TurboResults : ReadTurbo(t, r)
    \/ \E t \in ThreadIds : ReadBattery(t, BatteryLow)
    \/ \E t \in ThreadIds : ReadSetpoint(t, SetpointMin)
    \/ \E t \in ThreadIds : AutoControl(t)
    \/ \E t \in ThreadIds, r \in FanWriteResults : FanWriteResult(t, r)
    \/ \E t \in ThreadIds : ReadPLC(t, 0)
    \/ \E t \in ThreadIds : ReadFan(t, 0)
    \/ \E t \in ThreadIds : ReadParams(t, NormalParams)
    \/ \E t \in ThreadIds : EndCycle(t)
    \/ \E t \in ThreadIds : Wake(t)
    \/ Tick
    \/ create_monitor_page
    \/ StartButton
    \/ toggle_auto_control

Spec == Init /\ [][Next]_vars

(***************************************************************************)
(* C1  For every device, at most one automatic fan write (100 to register  *)
(* 1000) is issued per 10-second cooldown window: an automatic write is    *)
(* never issued less than a cooldown after the previous one, also when     *)
(* that one reported an error.                                             *)
(***************************************************************************)
C1_OneWritePerWindow ==
    wire.auto => wire.gap >= CooldownTicks

(***************************************************************************)
(* C5  In a cycle with auto-control active, the cooldown elapsed and a     *)
(* temperature value at hand, the fan write is issued if and only if the   *)
(* value is greater than or equal to the threshold.                        *)
(***************************************************************************)
C5_TriggerAtOrAbove ==
    [][\A t \in ThreadIds :
          (/\ threads[t].pc = "auto"
           /\ threads'[t].pc # "auto"
           /\ auto_control_active
           /\ last_fan_activation[threads[t].unit] >= CooldownTicks
           /\ threads[t].turbo_temp # Unbound)
          => ((wire'.auto /\ wire'.unit = threads[t].unit
                 /\ wire'.register = FanRegister /\ wire'.value = FanOnValue)
              <=> threads[t].turbo_temp >= turbo_temp_threshold)]_vars

\* the write went out on a reading equal to the threshold
C5_Witness ==
    \E t \in ThreadIds :
        /\ threads[t].pc = "fanwrite"
        /\ threads[t].turbo_temp = turbo_temp_threshold
        /\ wire.auto /\ wire.unit = threads[t].unit

\* every displayed metric of a unit is marked unknown
AllUnknown(w) ==
    /\ w.turbo = Dashes
    /\ w.battery = Dashes
    /\ w.setpoint = Dashes
    /\ w.status_light = "gray"

(***************************************************************************)
(* C10  A cycle whose connection attempt fails publishes an all-unknown    *)
(* state for the device and goes to the end of the cycle without a         *)
(* register read or write.                                                 *)
(***************************************************************************)
C10_UnknownOnConnectFailure ==
    [][\A t \in ThreadIds :
          (threads[t].pc = "connect" /\ threads'[t].pc = "endcycle"
             /\ ~threads[t].stale)
          => (AllUnknown(display'[threads[t].unit]) /\ wire' = NoWrite)]_vars

(***************************************************************************)
(* The fleet supervisor: two units, the operator starting and stopping     *)
(* monitoring and moving between pages, and transport calls that may       *)
(* never return.                                                           *)
(***************************************************************************)
FleetConnectResults == {1, Hang}

InitFleet ==
    /\ monitoring_active = FALSE
    /\ auto_control_active = FALSE
    /\ turbo_temp_threshold = DefaultThreshold
    /\ auto_threshold = DefaultThreshold
    /\ maintenance_mode_active = FALSE
    /\ units_info = <<1, 2>>
    /\ monitor_threads = <<>>
    /\ threads = [t \in ThreadIds |-> NoThread]
    /\ last_fan_activation = [u \in AllUnits |-> CooldownTicks]
    /\ display = [u \in AllUnits |-> NewWidgets]
    /\ alert_acknowledged = [u \in AllUnits |-> FALSE]
    /\ bg_flash_state = [u \in AllUnits |-> FALSE]
    /\ page = "main"
    /\ was_monitoring_before_navigation = FALSE
    /\ pending_start = FALSE
    /\ ui = UiIdle
    /\ wire = NoWrite
    /\ since_fan_write = [u \in AllUnits |-> CooldownTicks]
    /\ config_file = DefaultThreshold
    /\ entry = <<>>
    /\ sp = SpIdle
    /\ feed = <<>>
    /\ cycle = 0
    /\ connection_pool = [u \in AllUnits |-> "absent"]
    /\ users = DefaultUsers
    /\ current_user = None
    /\ current_user_role = None

NextFleet ==
    \/ \E t \in ThreadIds : LoopTop(t)
    \/ \E t \in ThreadIds, r \in FleetConnectResults : Connect(t, r)
    \/ \E t \in ThreadIds : ReadTurbo(t, DefaultThreshold)
    \/ \E t \in ThreadIds : ReadBattery(t, BatteryLow)
    \/ \E t \in ThreadIds : ReadSetpoint(t, SetpointMin)
    \/ \E t \in ThreadIds : AutoControl(t)
    \/ \E t \in ThreadIds : ReadPLC(t, 0)
    \/ \E t \in ThreadIds : ReadFan(t, 0)
    \/ \E t \in ThreadIds : ReadParams(t, NormalParams)
    \/ \E t \in ThreadIds : EndCycle(t)
    \/ \E t \in ThreadIds : Wake(t)
    \/ Tick
    \/ create_monitor_page
    \/ StartButton
    \/ DelayedStart
    \/ StopButton
    \/ back_to_main
    \/ create_password_page
    \/ JoinNext
    \/ JoinReturn
    \/ StopReturn

SpecFleet == InitFleet /\ [][NextFleet]_vars

\* the poller steps of the fleet, for the fairness of its scheduling
FleetPollerStep ==
    \E t \in ThreadIds :
        \/ LoopTop(t)
        \/ \E r \in FleetConnectResults : Connect(t, r)
        \/ ReadTurbo(t, DefaultThreshold)
        \/ ReadBattery(t, BatteryLow)
        \/ ReadSetpoint(t, SetpointMin)
        \/ AutoControl(t)
        \/ ReadPLC(t, 0)
        \/ ReadFan(t, 0)
        \/ ReadParams(t, NormalParams)
        \/ EndCycle(t)
        \/ Wake(t)

\* threads that can run do run, the clock advances, and the main thread
\* goes on with the handler it is in
SpecFleetFair ==
    /\ SpecFleet
    /\ WF_vars(FleetPollerStep)
    /\ WF_vars(Tick)
    /\ WF_vars(JoinNext)
    /\ WF_vars(JoinReturn)
    /\ WF_vars(StopReturn)

\* a step that starts one new poller per entry of units_info, in order, and
\* appends them to monitor_threads
OnePollerPerUnit ==
    LET n == Len(monitor_threads) IN
    /\ Len(monitor_threads') = n + Len(units_info)
    /\ \A j \in 1..n : monitor_threads'[j] = monitor_threads[j]
    /\ \A k \in 1..Len(units_info) :
          LET t == monitor_threads'[n + k] IN
          /\ ~is_alive(t)
          /\ threads'[t].pc = "loop"
          /\ threads'[t].unit = units_info[k]
    /\ \A j, k \in 1..Len(units_info) :
          j # k => monitor_threads'[n + j] # monitor_threads'[n + k]
    /\ \A t \in ThreadIds :
          t \notin Range(monitor_threads') => threads'[t] = threads[t]

(***************************************************************************)
(* C7  start_monitoring does nothing when monitoring is already active;    *)
(* otherwise it raises monitoring_active and spawns exactly one poller per *)
(* entry of units_info, each appended to monitor_threads.                  *)
(***************************************************************************)
C7_StartSpawnsOnePerUnit ==
    [][/\ (~monitoring_active /\ monitoring_active') => OnePollerPerUnit
       /\ ((StartButton \/ DelayedStart) /\ monitoring_active)
             => UNCHANGED <<monitoring_active, threads, monitor_threads>>]_vars

(***************************************************************************)
(* C8  stop_monitoring always returns: whatever the pollers do, also when  *)
(* some are blocked for ever in a transport call, the main thread leaves   *)
(* the join loop.                                                          *)
(***************************************************************************)
C8_StopReturns ==
    (ui.pc # "idle") ~> (ui.pc = "idle")

\* stop_monitoring has returned although a recorded worker never will
C8_Witness ==
    /\ ui.pc = "idle"
    /\ \E i \in 1..Len(ui.report) : threads[ui.report[i]].pc = "hung"

(***************************************************************************)
(* C9  The workers reported as not terminated are exactly the recorded     *)
(* workers still alive when their bounded join came back: a worker that    *)
(* ended within its join is not reported, one that did not is.             *)
(***************************************************************************)
C9_ReportsExactlyTheLiveWorkers ==
    [][(ui.pc = "joining" /\ ui'.pc = "join_next")
         => LET t == monitor_threads[ui.i] IN
            /\ threads[t].pc = "done" => ui'.active_threads = ui.active_threads
            /\ threads[t].pc # "done"
                 => ui'.active_threads = Append(ui.active_threads, t)]_vars

\* two workers were recorded, one of them hung, and the report names it alone
C9_Witness ==
    /\ ui.pc = "idle"
    /\ Len(ui.report) = 1
    /\ threads[ui.report[1]].pc = "hung"
    /\ Cardinality({t \in ThreadIds : is_alive(t)}) = 1

(***************************************************************************)
(* Entry texts.  A text is a sequence of characters; "s" stands for a      *)
(* superscript digit, which str.isdigit accepts and int() refuses.         *)
(***************************************************************************)
AsciiDigits == <<"0", "1", "4", "5", "9">>
Alphabet == Range(AsciiDigits) \cup {"s", " ", "+", "-"}

DigitValue(c) ==
    CASE c = "0" -> 0 [] c = "1" -> 1 [] c = "4" -> 4 [] c = "5" -> 5
      [] c = "9" -> 9 [] OTHER -> Unbound

\* str.strip()
RECURSIVE strip(_)
strip(s) ==
    IF s = <<>> THEN s
    ELSE IF Head(s) = " " THEN strip(Tail(s))
    ELSE IF s[Len(s)] = " " THEN strip(SubSeq(s, 1, Len(s) - 1))
    ELSE s

\* str.isdigit()
isdigit(s) == s # <<>> /\ \A i \in 1..Len(s) : s[i] \in Range(AsciiDigits) \cup {"s"}

\* the value of a run of decimal digits, most significant first
RECURSIVE Decimal(_)
Decimal(s) ==
    IF s = <<>> THEN 0
    ELSE 10 * Decimal(SubSeq(s, 1, Len(s) - 1)) + DigitValue(s[Len(s)])

\* int(text): surrounding blanks and one sign are allowed; anything else
\* raises ValueError, here Exc
int(text) ==
    LET s == strip(text)
        signed == s # <<>> /\ Head(s) \in {"+", "-"}
        d == IF signed THEN Tail(s) ELSE s
    IN IF d = <<>> \/ \E i \in 1..Len(d) : d[i] \notin Range(AsciiDigits)
       THEN Exc
       ELSE IF signed /\ Head(s) = "-" THEN 0 - Decimal(d) ELSE Decimal(d)

(***************************************************************************)
(* send_register_value(unit, value_var, 1212): the Send button beside a    *)
(* unit's setpoint entry.  The handler runs on the main thread; each step  *)
(* ends at a transport call, r being the outcome of that call.             *)
(***************************************************************************)
\* a range check that lets 101 through
InSetpointRangeLoose(value) == ~(value < SetpointMin \/ value > SetpointMax + 1)

\* if value < 50 or value > 100: rejected
InSetpointRange(value) == ~(value < SetpointMin \/ value > SetpointMax)

\* an arm write whose error is ignored
ArmAcceptedAlways(r) == TRUE

\* if result_509.isError(): close and return
ArmAccepted(r) == r # Err

SetpointFrame ==
    UNCHANGED <<monitoring_active, auto_control_active, turbo_temp_threshold,
                auto_threshold, maintenance_mode_active, units_info,
                monitor_threads, threads, last_fan_activation, display,
                alert_acknowledged, bg_flash_state, page,
                was_monitoring_before_navigation, pending_start, ui, wire,
                since_fan_write, config_file, feed, cycle,
                connection_pool, users, current_user, current_user_role>>

\* the operator types one more character into the entry, or clears it
TypeChar(c) ==
    /\ sp.pc \in {"idle", "done"}
    /\ Len(entry) < MaxLen
    /\ entry' = Append(entry, c)
    /\ sp' = SpIdle
    /\ SetpointFrame

ClearEntry ==
    /\ sp.pc \in {"idle", "done"}
    /\ entry # <<>>
    /\ entry' = <<>>
    /\ sp' = SpIdle
    /\ SetpointFrame

\* Send is pressed: validation, then client.connect(), r = 1 connected,
\* 0 not connected
SendPressed(r) ==
    LET value_str == strip(entry)
        value == int(value_str)
    IN
    /\ sp.pc = "idle"
    /\ sp' = IF ~isdigit(value_str) \/ value = Exc \/ ~InSetpointRange(value)
             THEN [sp EXCEPT !.input = entry, !.pc = "done"]
             ELSE [sp EXCEPT !.input = entry, !.value = value, !.tried = TRUE,
                             !.opened = (r = 1),
                             !.pc = IF r = 1 THEN "arm" ELSE "done"]
    /\ UNCHANGED entry
    /\ SetpointFrame

\* result_509 = client.write_register(address=509, value=3)
ArmWrite(r) ==
    /\ sp.pc = "arm"
    /\ sp' = [sp EXCEPT
                !.sent = Append(@, [register |-> ArmRegister, value |-> ArmValue, result |-> r]),
                !.pc = IF r # Exc /\ ArmAccepted(r) THEN "primary" ELSE "done"]
    /\ UNCHANGED entry
    /\ SetpointFrame

\* result = client.write_register(address=register_offset, value=value);
\* the entry is emptied after a write without error
PrimaryWrite(r) ==
    /\ sp.pc = "primary"
    /\ sp' = [sp EXCEPT
                !.sent = Append(@, [register |-> SetpointRegister, value |-> sp.value,
                                    result |-> r]),
                !.pc = "done"]
    /\ entry' = IF r = 0 THEN <<>> ELSE entry
    /\ SetpointFrame

WriteResults == {0, Err, Exc}

InitSetpoint ==
    /\ monitoring_active = FALSE
    /\ auto_control_active = FALSE
    /\ turbo_temp_threshold = DefaultThreshold
    /\ auto_threshold = DefaultThreshold
    /\ maintenance_mode_active = TRUE
    /\ units_info = <<1>>
    /\ monitor_threads = <<>>
    /\ threads = [t \in ThreadIds |-> NoThread]
    /\ last_fan_activation = [u \in AllUnits |-> CooldownTicks]
    /\ display = [u \in AllUnits |-> NewWidgets]
    /\ alert_acknowledged = [u \in AllUnits |-> FALSE]
    /\ bg_flash_state = [u \in AllUnits |-> FALSE]
    /\ page = "monitor"
    /\ was_monitoring_before_navigation = FALSE
    /\ pending_start = FALSE
    /\ ui = UiIdle
    /\ wire = NoWrite
    /\ since_fan_write = [u \in AllUnits |-> CooldownTicks]
    /\ config_file = DefaultThreshold
    /\ entry = <<"0">>
    /\ sp = SpIdle
    /\ feed = <<>>
    /\ cycle = 0
    /\ connection_pool = [u \in AllUnits |-> "absent"]
    /\ users = DefaultUsers
    /\ current_user = None
    /\ current_user_role = None

NextSetpoint ==
    \/ \E c \in Alphabet : TypeChar(c)
    \/ ClearEntry
    \/ \E r \in {1, 0, Exc} : SendPressed(r)
    \/ \E r \in WriteResults : ArmWrite(r)
    \/ \E r \in WriteResults : PrimaryWrite(r)

SpecSetpoint == InitSetpoint /\ [][NextSetpoint]_vars

(***************************************************************************)
(* What a text denotes, for the statements about the entry handlers:       *)
(* the numeral of n, possibly behind blanks and leading zeros.             *)
(***************************************************************************)
RECURSIVE Numeral(_)
Numeral(n) ==
    LET digit(d) == <<"0", "1", "2", "3", "4", "5", "6", "7", "8", "9">>[d + 1]
    IN IF n < 10 THEN <<digit(n)>> ELSE Append(Numeral(n \div 10), digit(n % 10))

RECURSIVE DropLeading(_, _)
DropLeading(s, c) ==
    IF s # <<>> /\ Head(s) = c THEN DropLeading(Tail(s), c) ELSE s

RECURSIVE DropTrailing(_, _)
DropTrailing(s, c) ==
    IF s # <<>> /\ s[Len(s)] = c THEN DropTrailing(SubSeq(s, 1, Len(s) - 1), c) ELSE s

Unpadded(text) == DropLeading(DropTrailing(DropLeading(text, " "), " "), "0")

SetpointNumerals == {Numeral(n) : n \in SetpointMin..SetpointMax}

DenotesSetpoint(text) == Unpadded(text) \in SetpointNumerals

RECURSIVE str(_)
str(n) ==
    IF n < 10 THEN <<AsciiDigits[CHOOSE i \in 1..Len(AsciiDigits) : DigitValue(AsciiDigits[i]) = n]>>
    ELSE str(n \div 10) \o str(n % 10)

\* a range check that lets 1051 through
InSafeRangeLoose(new_threshold) ==
    ThresholdMin <= new_threshold /\ new_threshold <= ThresholdMax + 1

\* if 950 <= new_threshold <= 1050
InSafeRange(new_threshold) ==
    ThresholdMin <= new_threshold /\ new_threshold <= ThresholdMax

\* saved: whether save_user_config could write config.json
set_turbo_threshold(saved) ==
    LET new_threshold == int(entry) IN
    /\ page = "maintenance"
    /\ IF new_threshold # Exc /\ InSafeRange(new_threshold)
       THEN /\ turbo_temp_threshold' = new_threshold
            /\ auto_threshold' = new_threshold
            /\ config_file' = IF saved THEN new_threshold ELSE config_file
            /\ entry' = str(new_threshold)
       ELSE UNCHANGED <<turbo_temp_threshold, auto_threshold, config_file, entry>>
    /\ UNCHANGED <<monitoring_active, auto_control_active, maintenance_mode_active,
                   units_info, monitor_threads, threads, last_fan_activation,
                   display, alert_acknowledged, bg_flash_state, page,
                   was_monitoring_before_navigation, pending_start, ui, wire,
                   since_fan_write, sp, feed, cycle,
                   connection_pool, users, current_user, current_user_role>>

InitThreshold ==
    /\ monitoring_active = FALSE
    /\ auto_control_active = FALSE
    /\ turbo_temp_threshold = DefaultThreshold
    /\ auto_threshold = DefaultThreshold
    /\ maintenance_mode_active = FALSE
    /\ units_info = <<1>>
    /\ monitor_threads = <<>>
    /\ threads = [t \in ThreadIds |-> NoThread]
    /\ last_fan_activation = [u \in AllUnits |-> CooldownTicks]
    /\ display = [u \in AllUnits |-> NewWidgets]
    /\ alert_acknowledged = [u \in AllUnits |-> FALSE]
    /\ bg_flash_state = [u \in AllUnits |-> FALSE]
    /\ page = "maintenance"
    /\ was_monitoring_before_navigation = FALSE
    /\ pending_start = FALSE
    /\ ui = UiIdle
    /\ wire = NoWrite
    /\ since_fan_write = [u \in AllUnits |-> CooldownTicks]
    /\ config_file = DefaultThreshold
    /\ entry = str(DefaultThreshold)
    /\ sp = SpIdle
    /\ feed = <<>>
    /\ cycle = 0
    /\ connection_pool = [u \in AllUnits |-> "absent"]
    /\ users = DefaultUsers
    /\ current_user = None
    /\ current_user_role = None

\* the characters typed into the threshold entry
ThresholdAlphabet == {"0", "1", "5", "9", "+"}

NextThreshold ==
    \/ \E c \in ThresholdAlphabet : TypeChar(c)
    \/ ClearEntry
    \/ \E saved \in BOOLEAN : set_turbo_threshold(saved)

SpecThreshold == InitThreshold /\ [][NextThreshold]_vars

ThresholdNumerals == {Numeral(n) : n \in ThresholdMin..ThresholdMax}

\* the numeral a threshold text stands for: blanks around it, one plus
\* sign and leading zeros set aside
Canonical(text) ==
    LET s == DropTrailing(DropLeading(text, " "), " ")
        d == IF s # <<>> /\ Head(s) = "+" THEN Tail(s) ELSE s
    IN IF d # <<>> /\ Head(d) \in Range(AsciiDigits) THEN DropLeading(d, "0") ELSE <<>>

DenotesThreshold(text) == Canonical(text) \in ThresholdNumerals

\* C4: a press of Set with an entry that denotes no integer in 950..1050
\* changes neither threshold and writes nothing to config.json; with an
\* entry that denotes one, both thresholds become that integer.
C4_ThresholdRange ==
    [][(\E saved \in BOOLEAN : set_turbo_threshold(saved)) =>
          IF DenotesThreshold(entry)
          THEN /\ Numeral(turbo_temp_threshold') = Canonical(entry)
               /\ Numeral(auto_threshold') = Canonical(entry)
          ELSE UNCHANGED <<turbo_temp_threshold, auto_threshold, config_file>>]_vars

\* the lowest admissible threshold has been set and saved, with 949 or
\* 1051 reachable in the entry just as well
C4_Witness ==
    /\ turbo_temp_threshold = ThresholdMin
    /\ auto_threshold = ThresholdMin
    /\ config_file = ThresholdMin

(***************************************************************************)
(* The scenario of one Prime unit under auto-control: the turbo readings   *)
(* of successive cycles come from a given sequence, every connection       *)
(* opens, and the fan write is answered at once, with or without error.    *)
(***************************************************************************)
ScenarioFeed == <<1040, 1049, 1051, 1052, 1053, 1051, 1040>>

\* time passes while the poller sleeps between two cycles
NominalTick ==
    /\ \A t \in ThreadIds : threads[t].pc # "fanwrite"
    /\ Tick

InitScenario ==
    /\ monitoring_active = TRUE
    /\ auto_control_active = TRUE
    /\ turbo_temp_threshold = DefaultThreshold
    /\ auto_threshold = DefaultThreshold
    /\ maintenance_mode_active = FALSE
    /\ units_info = <<1>>
    /\ monitor_threads = <<1>>
    /\ threads = [t \in ThreadIds |->
                    IF t = 1 THEN [NoThread EXCEPT !.unit = 1, !.pc = "loop"]
                    ELSE NoThread]
    /\ last_fan_activation = [u \in AllUnits |-> CooldownTicks]
    /\ display = [u \in AllUnits |-> NewWidgets]
    /\ alert_acknowledged = [u \in AllUnits |-> FALSE]
    /\ bg_flash_state = [u \in AllUnits |-> FALSE]
    /\ page = "monitor"
    /\ was_monitoring_before_navigation = FALSE
    /\ pending_start = FALSE
    /\ ui = UiIdle
    /\ wire = NoWrite
    /\ since_fan_write = [u \in AllUnits |-> CooldownTicks]
    /\ config_file = DefaultThreshold
    /\ entry = <<>>
    /\ sp = SpIdle
    /\ feed = ScenarioFeed
    /\ cycle = 0
    /\ connection_pool = [u \in AllUnits |-> "absent"]
    /\ users = DefaultUsers
    /\ current_user = None
    /\ current_user_role = None

NextScenario ==
    \/ \E t \in ThreadIds : LoopTop(t)
    \/ \E t \in ThreadIds : Connect(t, 1)
    \/ \E t \in ThreadIds : feed # <<>> /\ ReadTurbo(t, Head(feed))
    \/ \E t \in ThreadIds, r \in {BatteryLow - 1, BatteryLow} : ReadBattery(t, r)
    \/ \E t \in ThreadIds : ReadSetpoint(t, SetpointMin)
    \/ \E t \in ThreadIds : AutoControl(t)
    \/ \E t \in ThreadIds, r \in FanWriteResults : FanWriteResult(t, r)
    \/ \E t \in ThreadIds : ReadPLC(t, 0)
    \/ \E t \in ThreadIds : ReadFan(t, 0)
    \/ \E t \in ThreadIds : ReadParams(t, NormalParams)
    \/ \E t \in ThreadIds : EndCycle(t)
    \/ \E t \in ThreadIds : Wake(t)
    \/ NominalTick

SpecScenario == InitScenario /\ [][NextScenario]_vars

\* C6: in the scenario no automatic write goes out in cycles 1, 2, 4, 5
\* and 7, and cycle 3 has issued its write once it is past the
\* auto-control step.
C6_ScenarioWrites ==
    /\ wire.auto => cycle \notin {1, 2, 4, 5, 7}
    /\ (cycle = 3 /\ threads[1].pc \in {"fanwrite", "plc", "fan", "params"})
          => since_fan_write[1] = 0

(***************************************************************************)
(* C11  Partial success: in a cycle whose transport calls all answer, with *)
(* a value or with an error result, the poller goes from every read to the *)
(* next one; it never leaves the reads for the end of the cycle because    *)
(* one of them answered an error.  (Under Spec no read raises.)            *)
(***************************************************************************)
C11_PartialSuccess ==
    [][\A t \in ThreadIds :
          threads[t].pc \in {"turbo", "battery", "setpoint", "auto", "plc", "fan"}
             => threads'[t].pc # "endcycle"]_vars

(***************************************************************************)
(* Alerts of one Prime unit: the parameter reads of its poller, the        *)
(* overview popup with its Acknowledge button, and navigation away from    *)
(* the monitor page and back.                                              *)
(***************************************************************************)
\* open_unit_operations_window(unit), a click on the unit's frame: the
\* Acknowledge button is packed only if the frame is flashing just now.
\* The popup gets its labels ("---") and its own monitor thread.
open_unit_operations_window(u) ==
    /\ ui.pc = "idle" /\ page = "monitor"
    /\ u \in Range(units_info)
    /\ display' = [display EXCEPT ![u].ack_button = @ \/ bg_flash_state[u],
                                  ![u].popup = TRUE,
                                  ![u].gas_psi = Dashes,
                                  ![u].gas_psi_fg = "green",
                                  ![u].gas_psi_flash_state = FALSE]
    /\ wire' = NoWrite
    /\ UNCHANGED <<monitoring_active, auto_control_active, monitor_threads, threads,
                   alert_acknowledged, bg_flash_state, page,
                   was_monitoring_before_navigation, pending_start, ui>>
    /\ UiFrame

\* acknowledge_alert, the popup's Acknowledge button
acknowledge_alert(u) ==
    /\ ui.pc = "idle"
    /\ display[u].ack_button
    /\ alert_acknowledged' = [alert_acknowledged EXCEPT ![u] = TRUE]
    /\ display' = [display EXCEPT ![u].ack_button = FALSE]
    /\ wire' = NoWrite
    /\ UNCHANGED <<monitoring_active, auto_control_active, monitor_threads, threads,
                   bg_flash_state, page, was_monitoring_before_navigation,
                   pending_start, ui>>
    /\ UiFrame

\* outcomes of the five parameter reads: all normal, gas pressure in its
\* caution band, gas pressure in its fault band, low RPM, an RPM read in
\* error, and an Envolts read that raises after a low RPM
AlertParams ==
    {NormalParams,
     [NormalParams EXCEPT !.gas_psi = 90],
     [NormalParams EXCEPT !.gas_psi = 80],
     [NormalParams EXCEPT !.rpm = 1000],
     [NormalParams EXCEPT !.rpm = Err],
     [NormalParams EXCEPT !.rpm = 1000, !.envolts = Exc]}

InitAlert ==
    /\ monitoring_active = TRUE
    /\ auto_control_active = FALSE
    /\ turbo_temp_threshold = DefaultThreshold
    /\ auto_threshold = DefaultThreshold
    /\ maintenance_mode_active = FALSE
    /\ units_info = <<1>>
    /\ monitor_threads = <<1>>
    /\ threads = [t \in ThreadIds |->
                    IF t = 1 THEN [NoThread EXCEPT !.unit = 1, !.pc = "loop"]
                    ELSE NoThread]
    /\ last_fan_activation = [u \in AllUnits |-> CooldownTicks]
    /\ display = [u \in AllUnits |-> NewWidgets]
    /\ alert_acknowledged = [u \in AllUnits |-> FALSE]
    /\ bg_flash_state = [u \in AllUnits |-> FALSE]
    /\ page = "monitor"
    /\ was_monitoring_before_navigation = FALSE
    /\ pending_start = FALSE
    /\ ui = UiIdle
    /\ wire = NoWrite
    /\ since_fan_write = [u \in AllUnits |-> CooldownTicks]
    /\ config_file = DefaultThreshold
    /\ entry = <<>>
    /\ sp = SpIdle
    /\ feed = <<>>
    /\ cycle = 0
    /\ connection_pool = [u \in AllUnits |-> "absent"]
    /\ users = DefaultUsers
    /\ current_user = None
    /\ current_user_role = None

NextAlert ==
    \/ \E t \in ThreadIds : LoopTop(t)
    \/ \E t \in ThreadIds : Connect(t, 1)
    \/ \E t \in ThreadIds : ReadTurbo(t, DefaultThreshold)
    \/ \E t \in ThreadIds : ReadBattery(t, BatteryLow)
    \/ \E t \in ThreadIds : ReadSetpoint(t, SetpointMin)
    \/ \E t \in ThreadIds : AutoControl(t)
    \/ \E t \in ThreadIds : ReadPLC(t, 0)
    \/ \E t \in ThreadIds : ReadFan(t, 0)
    \/ \E t \in ThreadIds, p \in AlertParams : ReadParams(t, p)
    \/ \E t \in ThreadIds : EndCycle(t)
    \/ \E t \in ThreadIds : Wake(t)
    \/ Tick
    \/ \E u \in AllUnits : open_unit_operations_window(u)
    \/ \E u \in AllUnits : acknowledge_alert(u)
    \/ create_password_page
    \/ create_monitor_page
    \/ DelayedStart
    \/ JoinNext
    \/ JoinReturn
    \/ StopReturn

SpecAlert == InitAlert /\ [][NextAlert]_vars

\* all five parameter reads answered, with a value or an error result
Answered(p) == FirstAbnormal(p) = 0

\* a value read lies in the Fault band of its metric
InFaultBand(p) ==
    \/ p.rpm >= 0 /\ p.rpm < 1200
    \/ p.envolts >= 0 /\ p.envolts # 5
    \/ p.pe_oil >= 0 /\ p.pe_oil < 34
    \/ p.gb_oil >= 0 /\ p.gb_oil < 34
    \/ p.gas_psi >= 0 /\ p.gas_psi < 85

\* a value read lies in the Fault band of its metric or, for the gas
\* pressure, in its Caution band
InAlertBand(p) ==
    \/ InFaultBand(p)
    \/ p.gas_psi >= 85 /\ p.gas_psi < 100

\* the monitor page is built anew, and with it the unit records
PageRebuilt == page # "monitor" /\ page' = "monitor"

gas_psi_band_inclusive(v) ==
    IF v <= 85 THEN "red" ELSE IF v <= 100 THEN "amber" ELSE "green"

gas_psi_band(v) ==
    IF v < 85 THEN "red" ELSE IF v < 100 THEN "amber" ELSE "green"

\* the colour of the gas pressure label, by band and flash state
gas_psi_color(band, flash) ==
    CASE band = "red" -> IF flash THEN "red" ELSE "darkred"
      [] band = "amber" -> IF flash THEN "amber" ELSE "darkamber"
      [] OTHER -> "green"

\* monitor_popup, the gas pressure read (2035) of a cycle of the popup's
\* monitor thread; an error result leaves the label as it is
monitor_popup(u, r) ==
    LET flash == IF gas_psi_band(r) = "green" THEN display[u].gas_psi_flash_state
                 ELSE ~display[u].gas_psi_flash_state
    IN
    /\ display[u].popup
    /\ display' = IF r >= 0
                  THEN [display EXCEPT ![u].gas_psi = r,
                                       ![u].gas_psi_fg = gas_psi_color(gas_psi_band(r), flash),
                                       ![u].gas_psi_flash_state = flash]
                  ELSE display
    /\ wire' = NoWrite
    /\ UNCHANGED <<monitoring_active, auto_control_active, monitor_threads, threads,
                   alert_acknowledged, bg_flash_state, page,
                   was_monitoring_before_navigation, pending_start, ui>>
    /\ UiFrame

BatteryValues == {49, 50, 51, Err}

GasPsiValues == {84, 85, 99, 100, Err}

NextBands ==
    \/ \E t \in ThreadIds : LoopTop(t)
    \/ \E t \in ThreadIds : Connect(t, 1)
    \/ \E t \in ThreadIds : ReadTurbo(t, DefaultThreshold)
    \/ \E t \in ThreadIds, r \in BatteryValues : ReadBattery(t, r)
    \/ \E t \in ThreadIds : ReadSetpoint(t, SetpointMin)
    \/ \E t \in ThreadIds : AutoControl(t)
    \/ \E t \in ThreadIds : ReadPLC(t, 0)
    \/ \E t \in ThreadIds : ReadFan(t, 0)
    \/ \E t \in ThreadIds : ReadParams(t, NormalParams)
    \/ \E t \in ThreadIds : EndCycle(t)
    \/ \E t \in ThreadIds : Wake(t)
    \/ Tick
    \/ \E u \in AllUnits : open_unit_operations_window(u)
    \/ \E u \in AllUnits, r \in GasPsiValues : monitor_popup(u, r)

SpecBands == InitAlert /\ [][NextBands]_vars

(***************************************************************************)
(* C13  Boundaries.  A battery level of exactly 50 is shown as normal:     *)
(* only a level below 50 advances the flash counter and can show the       *)
(* warning background.  A gas pressure below 85 is shown in a red (Fault), *)
(* one from 85 and below 100 in an amber (Caution), one of 100 or more in  *)
(* green (Normal).                                                         *)
(***************************************************************************)
C13_Boundaries ==
    [][/\ \A t \in ThreadIds, r \in BatteryValues :
             (ReadBattery(t, r) /\ r >= 0 /\ ~threads[t].stale) =>
                LET u == threads[t].unit IN
                IF r < 50
                THEN /\ threads'[t].flash_counter # threads[t].flash_counter
                     /\ display'[u].battery_bg =
                           (IF threads'[t].flash_counter < 2 THEN "red" ELSE "dark")
                ELSE /\ threads'[t].flash_counter = threads[t].flash_counter
                     /\ display'[u].battery_bg = "dark"
       /\ \A u \in AllUnits, r \in GasPsiValues :
             (monitor_popup(u, r) /\ r >= 0) =>
                /\ r < 85 <=> display'[u].gas_psi_fg \in {"red", "darkred"}
                /\ (85 <= r /\ r < 100) <=> display'[u].gas_psi_fg \in {"amber", "darkamber"}
                /\ r >= 100 <=> display'[u].gas_psi_fg = "green"]_vars

\* a battery level of exactly 50 shown as normal beside a gas pressure of
\* exactly 85 shown as caution
C13_Witness ==
    /\ display[1].battery = 50 /\ display[1].battery_bg = "dark"
    /\ display[1].gas_psi = 85 /\ display[1].gas_psi_fg \in {"amber", "darkamber"}

(***************************************************************************)
(* Two units polled side by side: the calls to unit 1 end in every kind of *)
(* error and its turbo runs hot, while unit 2 answers every call and stays *)
(* below the threshold; the Stop button works as ever.                     *)
(***************************************************************************)
IsolationConnectResults(u) == IF u = 1 THEN {1, 0, Exc, Hang} ELSE {1}

IsolationTurboResults(u) ==
    IF u = 1 THEN {DefaultThreshold, Err, Exc} ELSE {DefaultThreshold - 1}

IsolationWriteResults(u) == IF u = 1 THEN WriteResults ELSE {0}

IsolationParams(u) ==
    IF u = 1 THEN {NormalParams, [NormalParams EXCEPT !.rpm = Exc]}
    ELSE {NormalParams}

InitIsolation ==
    /\ monitoring_active = TRUE
    /\ auto_control_active = TRUE
    /\ turbo_temp_threshold = DefaultThreshold
    /\ auto_threshold = DefaultThreshold
    /\ maintenance_mode_active = FALSE
    /\ units_info = <<1, 2>>
    /\ monitor_threads = <<1, 2>>
    /\ threads = [t \in ThreadIds |->
                    IF t \in {1, 2} THEN [NoThread EXCEPT !.unit = t, !.pc = "loop"]
                    ELSE NoThread]
    /\ last_fan_activation = [u \in AllUnits |-> CooldownTicks]
    /\ display = [u \in AllUnits |-> NewWidgets]
    /\ alert_acknowledged = [u \in AllUnits |-> FALSE]
    /\ bg_flash_state = [u \in AllUnits |-> FALSE]
    /\ page = "monitor"
    /\ was_monitoring_before_navigation = FALSE
    /\ pending_start = FALSE
    /\ ui = UiIdle
    /\ wire = NoWrite
    /\ since_fan_write = [u \in AllUnits |-> CooldownTicks]
    /\ config_file = DefaultThreshold
    /\ entry = <<>>
    /\ sp = SpIdle
    /\ feed = <<>>
    /\ cycle = 0
    /\ connection_pool = [u \in AllUnits |-> "absent"]
    /\ users = DefaultUsers
    /\ current_user = None
    /\ current_user_role = None

NextIsolation ==
    \/ \E t \in ThreadIds : LoopTop(t)
    \/ \E t \in ThreadIds : \E r \in IsolationConnectResults(threads[t].unit) :
          Connect(t, r)
    \/ \E t \in ThreadIds : \E r \in IsolationTurboResults(threads[t].unit) :
          ReadTurbo(t, r)
    \/ \E t \in ThreadIds : ReadBattery(t, BatteryLow)
    \/ \E t \in ThreadIds : ReadSetpoint(t, SetpointMin)
    \/ \E t \in ThreadIds : AutoControl(t)
    \/ \E t \in ThreadIds : \E r \in IsolationWriteResults(threads[t].unit) :
          FanWriteResult(t, r)
    \/ \E t \in ThreadIds : ReadPLC(t, 0)
    \/ \E t \in ThreadIds : ReadFan(t, 0)
    \/ \E t \in ThreadIds : \E p \in IsolationParams(threads[t].unit) :
          ReadParams(t, p)
    \/ \E t \in ThreadIds : EndCycle(t)
    \/ \E t \in ThreadIds : Wake(t)
    \/ Tick
    \/ StopButton
    \/ JoinNext
    \/ JoinReturn
    \/ StopReturn

SpecIsolation == InitIsolation /\ [][NextIsolation]_vars

\* a step of poller t
IsolationStep(t) ==
    \/ LoopTop(t)
    \/ \E r \in IsolationConnectResults(threads[t].unit) : Connect(t, r)
    \/ \E r \in IsolationTurboResults(threads[t].unit) : ReadTurbo(t, r)
    \/ ReadBattery(t, BatteryLow)
    \/ ReadSetpoint(t, SetpointMin)
    \/ AutoControl(t)
    \/ \E r \in IsolationWriteResults(threads[t].unit) : FanWriteResult(t, r)
    \/ ReadPLC(t, 0)
    \/ ReadFan(t, 0)
    \/ \E p \in IsolationParams(threads[t].unit) : ReadParams(t, p)
    \/ EndCycle(t)
    \/ Wake(t)

(***************************************************************************)
(* C14  Error isolation: a step of one unit's poller, whatever its calls   *)
(* answer (a failed connect, an error result, an exception, no answer),    *)
(* changes nothing of another unit (its widgets, its alert state, its last *)
(* fan activation), leaves every other poller where it is, and changes     *)
(* neither monitoring_active nor monitor_threads.                          *)
(***************************************************************************)
C14_ErrorIsolation ==
    [][\A t \in ThreadIds :
          IsolationStep(t) =>
             /\ \A v \in AllUnits \ {threads[t].unit} :
                   /\ display'[v] = display[v]
                   /\ alert_acknowledged'[v] = alert_acknowledged[v]
                   /\ bg_flash_state'[v] = bg_flash_state[v]
                   /\ last_fan_activation'[v] = last_fan_activation[v]
             /\ \A o \in ThreadIds \ {t} : threads'[o] = threads[o]
             /\ monitoring_active' = monitoring_active
             /\ monitor_threads' = monitor_threads]_vars

\* one poller's cycle ended in an exception and its displays were reset
\* while the other unit's poller is in the middle of its reads, its value shown
C14_Witness ==
    /\ threads[1].pc = "endcycle" /\ display[1].turbo = Dashes
    /\ threads[2].pc = "params" /\ display[2].turbo = DefaultThreshold - 1
    /\ monitoring_active /\ monitor_threads = <<1, 2>>

(***************************************************************************)
(* C16  When the trigger has fired with the cooldown elapsed and the fan   *)
(* write has answered, with success or with an error result, the unit's    *)
(* last activation is the time captured before the write.                  *)
(***************************************************************************)
C16_RecordedWhateverTheWriteReports ==
    [][\A t \in ThreadIds, r \in FanWriteResults :
          FanWriteResult(t, r)
             => last_fan_activation'[threads[t].unit] = threads[t].captured]_vars

(***************************************************************************)
(* C17  A cycle in which the trigger holds while the cooldown has not      *)
(* elapsed issues no write and leaves the unit's last activation as it is: *)
(* the time since the last recorded activation changes only as time passes *)
(* or when a fan write answers.  The write of a triggered cycle goes out   *)
(* exactly when one cooldown interval has passed since that activation.    *)
(***************************************************************************)
C17_SuppressedCyclesDoNotRearm ==
    [][/\ \A t \in ThreadIds :
             (/\ AutoControl(t)
              /\ auto_control_active
              /\ threads[t].turbo_temp # Unbound
              /\ threads[t].turbo_temp >= turbo_temp_threshold)
             => /\ last_fan_activation' = last_fan_activation
                /\ IF last_fan_activation[threads[t].unit] < CooldownTicks
                   THEN wire' = wire /\ threads'[t].pc = "plc"
                   ELSE wire'.auto /\ wire'.unit = threads[t].unit
                        /\ threads'[t].pc = "fanwrite"
       /\ (last_fan_activation' # last_fan_activation)
             => \/ Tick
                \/ \E t \in ThreadIds, r \in FanWriteResults : FanWriteResult(t, r)]_vars

\* a cycle at its auto-control decision with the turbo above the threshold,
\* two poll intervals after the recorded activation and the last write
C17_Witness ==
    \E t \in ThreadIds :
       /\ threads[t].pc = "auto"
       /\ auto_control_active
       /\ threads[t].turbo_temp # Unbound
       /\ threads[t].turbo_temp >= turbo_temp_threshold
       /\ last_fan_activation[threads[t].unit] = 2 * PollTicks
       /\ since_fan_write[threads[t].unit] = 2 * PollTicks

(***************************************************************************)
(* One Prime unit on the monitor page with auto-control on, its turbo at   *)
(* the threshold and every call answering: the poller, the Start and Stop  *)
(* buttons and the joins of stop_monitoring.                               *)
(***************************************************************************)
InitCancel ==
    /\ monitoring_active = FALSE
    /\ auto_control_active = TRUE
    /\ turbo_temp_threshold = DefaultThreshold
    /\ auto_threshold = DefaultThreshold
    /\ maintenance_mode_active = FALSE
    /\ units_info = <<1>>
    /\ monitor_threads = <<>>
    /\ threads = [t \in ThreadIds |-> NoThread]
    /\ last_fan_activation = [u \in AllUnits |-> CooldownTicks]
    /\ display = [u \in AllUnits |-> NewWidgets]
    /\ alert_acknowledged = [u \in AllUnits |-> FALSE]
    /\ bg_flash_state = [u \in AllUnits |-> FALSE]
    /\ page = "monitor"
    /\ was_monitoring_before_navigation = FALSE
    /\ pending_start = FALSE
    /\ ui = UiIdle
    /\ wire = NoWrite
    /\ since_fan_write = [u \in AllUnits |-> CooldownTicks]
    /\ config_file = DefaultThreshold
    /\ entry = <<>>
    /\ sp = SpIdle
    /\ feed = <<>>
    /\ cycle = 0
    /\ connection_pool = [u \in AllUnits |-> "absent"]
    /\ users = DefaultUsers
    /\ current_user = None
    /\ current_user_role = None

NextCancel ==
    \/ \E t \in ThreadIds : LoopTop(t)
    \/ \E t \in ThreadIds : Connect(t, 1)
    \/ \E t \in ThreadIds : ReadTurbo(t, DefaultThreshold)
    \/ \E t \in ThreadIds : ReadBattery(t, BatteryLow)
    \/ \E t \in ThreadIds : ReadSetpoint(t, SetpointMin)
    \/ \E t \in ThreadIds : AutoControl(t)
    \/ \E t \in ThreadIds : FanWriteResult(t, 0)
    \/ \E t \in ThreadIds : ReadPLC(t, 0)
    \/ \E t \in ThreadIds : ReadFan(t, 0)
    \/ \E t \in ThreadIds : ReadParams(t, NormalParams)
    \/ \E t \in ThreadIds : EndCycle(t)
    \/ \E t \in ThreadIds : Wake(t)
    \/ Tick
    \/ StartButton
    \/ StopButton
    \/ JoinNext
    \/ JoinReturn
    \/ StopReturn

SpecCancel == InitCancel /\ [][NextCancel]_vars

(***************************************************************************)
(* C18  Cancellation: a poller that finds monitoring_active false at the   *)
(* top of its loop starts no connect and no reads, and no automatic fan    *)
(* write is issued while monitoring_active is false.                       *)
(***************************************************************************)
C18_NoWriteAfterStop ==
    [][\A t \in ThreadIds :
          /\ (LoopTop(t) /\ ~monitoring_active) => threads'[t].pc # "connect"
          /\ (AutoControl(t) /\ wire'.auto) => monitoring_active]_vars

(***************************************************************************)
(* C19  At any time at most one poller is running for each monitored unit. *)
(***************************************************************************)
C19_AtMostOnePollerPerUnit ==
    \A u \in AllUnits :
       Cardinality({t \in ThreadIds : is_alive(t) /\ threads[t].unit = u}) <= 1

\* every poller that can run does run and every call that answers does so
\* in the end, the clock advances, and the main thread goes on with the
\* handler it is in
SpecIsolationFair ==
    /\ SpecIsolation
    /\ \A t \in ThreadIds : WF_vars(IsolationStep(t))
    /\ WF_vars(Tick)
    /\ WF_vars(JoinNext)
    /\ WF_vars(JoinReturn)
    /\ WF_vars(StopReturn)

(***************************************************************************)
(* C20  Liveness of stop: once monitoring_active is false (nothing sets it *)
(* again here), every poller still alive, in whichever phase, has          *)
(* eventually left its loop and terminated, unless a transport call of its *)
(* never returns.                                                          *)
(***************************************************************************)
C20_StoppedPollersTerminate ==
    \A t \in ThreadIds :
       (~monitoring_active /\ is_alive(t))
          ~> (~is_alive(t) \/ threads[t].pc = "hung" \/ monitoring_active)

\* both pollers have terminated after the flag was set to false
C20_Witness ==
    /\ ~monitoring_active
    /\ ui.pc = "idle"
    /\ \A t \in ThreadIds : ~is_alive(t)

(***************************************************************************)
(* C21  A flip of auto_control_active reaches a running poller at its next *)
(* auto-control decision, with no restart: toggling while monitoring runs  *)
(* leaves every poller where it is, and a cycle issues the automatic fan   *)
(* write exactly when, at its decision, the flag is on, the temperature is *)
(* at or above the threshold and the cooldown has elapsed.                 *)
(***************************************************************************)
C21_FlagHonouredNextCycle ==
    [][/\ \A t \in ThreadIds :
             AutoControl(t) =>
                (threads'[t].pc = "fanwrite"
                   <=> /\ auto_control_active
                       /\ threads[t].turbo_temp # Unbound
                       /\ threads[t].turbo_temp >= turbo_temp_threshold
                       /\ last_fan_activation[threads[t].unit] >= CooldownTicks)
       /\ (toggle_auto_control /\ monitoring_active)
             => threads' = threads /\ monitor_threads' = monitor_threads]_vars

\* the flag was on one cycle ago, when a write went out, and is off now, at
\* the decision of a cycle whose trigger is eligible
C21_Witness ==
    \E t \in ThreadIds :
       /\ threads[t].pc = "auto"
       /\ ~auto_control_active
       /\ threads[t].turbo_temp # Unbound
       /\ threads[t].turbo_temp >= turbo_temp_threshold
       /\ last_fan_activation[threads[t].unit] = CooldownTicks
       /\ since_fan_write[threads[t].unit] = PollTicks

(***************************************************************************)
(* C22  The connection a poller has obtained stays open from cycle to      *)
(* cycle: the socket of a poller is closed by nothing but the end of       *)
(* stop_monitoring.                                                        *)
(***************************************************************************)
C22_ConnectionKeptAcrossCycles ==
    [][\A t \in ThreadIds :
          (threads[t].socket_open /\ ~threads'[t].socket_open) => StopReturn]_vars

(***************************************************************************)
(* The connection pool of revision 5.2.1.  There monitor_unit takes its    *)
(* client from get_modbus_connection, leaves it open at the end of the     *)
(* cycle (finally: pass), and stop_monitoring ends with                    *)
(* close_all_connections.  The loop top, the sleep, start_monitoring and   *)
(* the join loop are the same code as in 5.3.1.  Of a cycle only its use   *)
(* of the client is kept: the register traffic of the cycle is one phase,  *)
(* "transfer", which can take time.                                        *)
(***************************************************************************)
PoolFrame ==
    UNCHANGED <<monitoring_active, auto_control_active, turbo_temp_threshold,
                auto_threshold, maintenance_mode_active, units_info,
                monitor_threads, last_fan_activation, alert_acknowledged,
                bg_flash_state, page, was_monitoring_before_navigation,
                pending_start, ui, since_fan_write, config_file, entry, sp,
                feed, cycle, users, current_user, current_user_role>>

\* client = self.get_modbus_connection(ip): the pooled client, created if
\* the pool has none and connected if its socket is not open; r = 1
\* connected, 0 not connected (the client is returned all the same), Exc
\* connect() raised (None is returned and the cycle is skipped)
get_modbus_connection(t, r) ==
    LET u == threads[t].unit IN
    /\ threads[t].pc = "connect"
    /\ IF connection_pool[u] = "open"
       THEN /\ threads' = [threads EXCEPT ![t].pc = "transfer"]
            /\ UNCHANGED connection_pool
       ELSE /\ connection_pool' = [connection_pool EXCEPT ![u] =
                                      IF r = 1 THEN "open" ELSE "closed"]
            /\ threads' = [threads EXCEPT ![t].pc =
                              IF r = Exc THEN "endcycle" ELSE "transfer"]
    /\ wire' = NoWrite
    /\ UNCHANGED display
    /\ PoolFrame

\* the reads and writes of the cycle on the pooled client have answered
\* (r = 0) or raised (r = Exc, as they do on a socket that is not open)
PooledTransfer(t, r) ==
    LET u == threads[t].unit IN
    /\ threads[t].pc = "transfer"
    /\ connection_pool[u] # "open" => r = Exc
    /\ threads' = [threads EXCEPT ![t].pc = "endcycle"]
    /\ display' = IF r = Exc THEN Shown(t, ResetDisplays(display[u])) ELSE display
    /\ wire' = NoWrite
    /\ UNCHANGED connection_pool
    /\ PoolFrame

\* finally: pass; if not self.monitoring_active: break; time.sleep(1.5)
PooledEndCycle(t) ==
    /\ threads[t].pc = "endcycle"
    /\ threads' = [threads EXCEPT ![t] =
                      IF monitoring_active
                      THEN [@ EXCEPT !.pc = "sleep", !.sleepLeft = PollTicks]
                      ELSE Exited(t)]
    /\ wire' = NoWrite
    /\ UNCHANGED <<display, connection_pool>>
    /\ PoolFrame

\* close_all_connections: every client of the pool is closed and the pool
\* is cleared
close_all_connections == [u \in AllUnits |-> "absent"]

\* the end of stop_monitoring in 5.2.1: self.monitor_threads = [] and
\* self.close_all_connections()
StopReturnPooled ==
    /\ ui.pc = "join_next"
    /\ ui.i > Len(monitor_threads)
    /\ monitor_threads' = <<>>
    /\ connection_pool' = close_all_connections
    /\ ui' = [UiIdle EXCEPT !.report = ui.active_threads]
    /\ Continue(ui.cont, was_monitoring_before_navigation)
    /\ wire' = NoWrite
    /\ UNCHANGED <<monitoring_active, auto_control_active,
                   was_monitoring_before_navigation,
                   turbo_temp_threshold, auto_threshold, maintenance_mode_active,
                   units_info, last_fan_activation, since_fan_write, config_file,
                   entry, sp, feed, cycle, users, current_user, current_user_role>>

PoolResults == {1, 0, Exc}

NextPool ==
    \/ \E t \in ThreadIds : LoopTop(t)
    \/ \E t \in ThreadIds, r \in PoolResults : get_modbus_connection(t, r)
    \/ \E t \in ThreadIds, r \in {0, Exc} : PooledTransfer(t, r)
    \/ \E t \in ThreadIds : PooledEndCycle(t)
    \/ \E t \in ThreadIds : Wake(t)
    \/ Tick
    \/ StartButton
    \/ StopButton
    \/ JoinNext
    \/ JoinReturn
    \/ StopReturnPooled

SpecPool == InitCancel /\ [][NextPool]_vars

(***************************************************************************)
(* C23  The release of all connections at the end of stop_monitoring acts  *)
(* only on connections whose poller has exited: when it runs, no poller    *)
(* that is still alive belongs to a unit with a client in the pool.        *)
(***************************************************************************)
C23_ReleaseOnlyExitedPollers ==
    [][StopReturnPooled =>
          \A u \in AllUnits :
             connection_pool[u] # "absent" =>
                \A t \in ThreadIds : ~(is_alive(t) /\ threads[t].unit = u)]_vars

(***************************************************************************)
(* Acknowledged alerts beside auto-control: one unit polled with its       *)
(* turbo at the threshold and auto-control toggled, parameter reads in     *)
(* and out of the alert bands, a battery level on either side of its       *)
(* limit, and the overview popup with its Acknowledge button.              *)
(***************************************************************************)
AckParams == {NormalParams, [NormalParams EXCEPT !.rpm = 1000]}

AckBatteryValues == {BatteryLow - 1, BatteryLow}

NextAck ==
    \/ \E t \in ThreadIds : LoopTop(t)
    \/ \E t \in ThreadIds : Connect(t, 1)
    \/ \E t \in ThreadIds : ReadTurbo(t, DefaultThreshold)
    \/ \E t \in ThreadIds, r \in AckBatteryValues : ReadBattery(t, r)
    \/ \E t \in ThreadIds : ReadSetpoint(t, SetpointMin)
    \/ \E t \in ThreadIds : AutoControl(t)
    \/ \E t \in ThreadIds : FanWriteResult(t, 0)
    \/ \E t \in ThreadIds : ReadPLC(t, 0)
    \/ \E t \in ThreadIds : ReadFan(t, 0)
    \/ \E t \in ThreadIds, p \in AckParams : ReadParams(t, p)
    \/ \E t \in ThreadIds : EndCycle(t)
    \/ \E t \in ThreadIds : Wake(t)
    \/ Tick
    \/ \E u \in AllUnits : open_unit_operations_window(u)
    \/ \E u \in AllUnits : acknowledge_alert(u)
    \/ toggle_auto_control

SpecAck == InitAlert /\ [][NextAck]_vars

(***************************************************************************)
(* C24  An acknowledged alert changes nothing but the frame's flashing.    *)
(* With the unit's alert acknowledged, a cycle issues the automatic fan    *)
(* write exactly when the trigger is eligible, a battery level below 50    *)
(* advances the battery flashing and one at 50 or above does not, and the  *)
(* parameters are classified as ever: values in an alert band keep the     *)
(* alert, values outside clear it.  The acknowledgment itself moves no     *)
(* poller and issues no write.                                             *)
(***************************************************************************)
C24_AcknowledgeIsVisualOnly ==
    [][/\ \A t \in ThreadIds :
             (is_alive(t) /\ alert_acknowledged[threads[t].unit]) =>
                /\ AutoControl(t) =>
                      (threads'[t].pc = "fanwrite"
                         <=> /\ auto_control_active
                             /\ threads[t].turbo_temp # Unbound
                             /\ threads[t].turbo_temp >= turbo_temp_threshold
                             /\ last_fan_activation[threads[t].unit] >= CooldownTicks)
                /\ \A r \in AckBatteryValues :
                      ReadBattery(t, r) =>
                         (threads'[t].flash_counter # threads[t].flash_counter
                            <=> r < 50)
                /\ \A p \in AckParams :
                      ReadParams(t, p) =>
                         (alert_acknowledged'[threads[t].unit] <=> InAlertBand(p))
       /\ \A u \in AllUnits :
             acknowledge_alert(u) =>
                /\ threads' = threads
                /\ ~wire'.auto
                /\ last_fan_activation' = last_fan_activation
                /\ display' = [display EXCEPT ![u].ack_button = FALSE]]_vars

\* the automatic fan write of a unit goes out while its alert is acknowledged
C24_Witness ==
    \E t \in ThreadIds :
       /\ threads[t].pc = "fanwrite"
       /\ is_alive(t)
       /\ alert_acknowledged[threads[t].unit]
       /\ wire.auto /\ wire.unit = threads[t].unit

(***************************************************************************)
(* The flashing indicators: one unit polled with the battery on either     *)
(* side of the low limit, the PLC health bit set or clear, the fan         *)
(* register at 100 or 0 and the parameters in or out of an alert band.     *)
(***************************************************************************)
FlashPLCValues == {0, 4}

FlashFanValues == {0, FanOnValue}

NextFlash ==
    \/ \E t \in ThreadIds : LoopTop(t)
    \/ \E t \in ThreadIds : Connect(t, 1)
    \/ \E t \in ThreadIds : ReadTurbo(t, ThresholdMin)
    \/ \E t \in ThreadIds, r \in AckBatteryValues : ReadBattery(t, r)
    \/ \E t \in ThreadIds : ReadSetpoint(t, SetpointMin)
    \/ \E t \in ThreadIds : AutoControl(t)
    \/ \E t \in ThreadIds, r \in FlashPLCValues : ReadPLC(t, r)
    \/ \E t \in ThreadIds, r \in FlashFanValues : ReadFan(t, r)
    \/ \E t \in ThreadIds, p \in AckParams : ReadParams(t, p)
    \/ \E t \in ThreadIds : EndCycle(t)
    \/ \E t \in ThreadIds : Wake(t)
    \/ Tick

SpecFlash == InitAlert /\ [][NextFlash]_vars

(***************************************************************************)
(* C25  An indicator whose metric stays in its alarm band changes its      *)
(* colour in every poll cycle: the battery background when the level was   *)
(* below 50 in the last cycle and is again, the status light when the PLC  *)
(* bit was set and is again, the fan button when the register was 100 and  *)
(* is again, the frame when an unacknowledged alert persists.              *)
(***************************************************************************)
C25_FlashAlternatesEveryCycle ==
    [][\A t \in ThreadIds :
          is_alive(t) =>
             LET u == threads[t].unit IN
             /\ \A r \in AckBatteryValues :
                   (ReadBattery(t, r) /\ r < 50 /\ display[u].battery \in 0..49)
                      => display'[u].battery_bg # display[u].battery_bg
             /\ (ReadPLC(t, 4) /\ display[u].status_light = "red")
                   => display'[u].status_light = "green"
             /\ (ReadFan(t, FanOnValue) /\ display[u].control_button \in {"red", "darkred"})
                   => display'[u].control_button # display[u].control_button
             /\ \A p \in AckParams :
                   (ReadParams(t, p) /\ InAlertBand(p) /\ display[u].frame_bg \in {"red"})
                      => display'[u].frame_bg = "dark"]_vars

(***************************************************************************)
(* Snapshots: the device's turbo temperature and battery level both move   *)
(* by one from each cycle to the next, so the values shown tell the cycle  *)
(* they were read in.                                                      *)
(***************************************************************************)
SnapshotBase == 1000

SnapshotFeed == <<1001, 1002, 1003, 1004, 1005, 1006>>

InitSnapshot ==
    /\ monitoring_active = TRUE
    /\ auto_control_active = FALSE
    /\ turbo_temp_threshold = DefaultThreshold
    /\ auto_threshold = DefaultThreshold
    /\ maintenance_mode_active = FALSE
    /\ units_info = <<1>>
    /\ monitor_threads = <<1>>
    /\ threads = [t \in ThreadIds |->
                    IF t = 1 THEN [NoThread EXCEPT !.unit = 1, !.pc = "loop"]
                    ELSE NoThread]
    /\ last_fan_activation = [u \in AllUnits |-> CooldownTicks]
    /\ display = [u \in AllUnits |-> NewWidgets]
    /\ alert_acknowledged = [u \in AllUnits |-> FALSE]
    /\ bg_flash_state = [u \in AllUnits |-> FALSE]
    /\ page = "monitor"
    /\ was_monitoring_before_navigation = FALSE
    /\ pending_start = FALSE
    /\ ui = UiIdle
    /\ wire = NoWrite
    /\ since_fan_write = [u \in AllUnits |-> CooldownTicks]
    /\ config_file = DefaultThreshold
    /\ entry = <<>>
    /\ sp = SpIdle
    /\ feed = SnapshotFeed
    /\ cycle = 0
    /\ connection_pool = [u \in AllUnits |-> "absent"]
    /\ users = DefaultUsers
    /\ current_user = None
    /\ current_user_role = None

NextSnapshot ==
    \/ \E t \in ThreadIds : LoopTop(t)
    \/ \E t \in ThreadIds : Connect(t, 1)
    \/ \E t \in ThreadIds : feed # <<>> /\ ReadTurbo(t, Head(feed))
    \/ \E t \in ThreadIds : ReadBattery(t, BatteryLow + cycle)
    \/ \E t \in ThreadIds : ReadSetpoint(t, SetpointMin)
    \/ \E t \in ThreadIds : AutoControl(t)
    \/ \E t \in ThreadIds, r \in FlashPLCValues : ReadPLC(t, r)
    \/ \E t \in ThreadIds, r \in FlashFanValues : ReadFan(t, r)
    \/ \E t \in ThreadIds, p \in AckParams : ReadParams(t, p)
    \/ \E t \in ThreadIds : EndCycle(t)
    \/ \E t \in ThreadIds : Wake(t)
    \/ Tick

SpecSnapshot == InitSnapshot /\ [][NextSnapshot]_vars

(***************************************************************************)
(* C26  The values shown for one device always belong to one cycle: the    *)
(* turbo temperature and the battery level on the page were read in the    *)
(* same cycle.                                                             *)
(***************************************************************************)
C26_SnapshotNeverMixed ==
    \A u \in AllUnits :
       (display[u].turbo # Dashes /\ display[u].battery # Dashes)
          => display[u].turbo - SnapshotBase = display[u].battery - BatteryLow

(***************************************************************************)
(* A turbo read that fails after one that succeeded: the readings of the   *)
(* successive cycles come from a given sequence in which only the first    *)
(* read is answered, and auto-control is switched on and off at any time.  *)
(***************************************************************************)
StaleFeed == <<DefaultThreshold + 5, Err, Err, Err>>

InitStale ==
    /\ monitoring_active = TRUE
    /\ auto_control_active = FALSE
    /\ turbo_temp_threshold = DefaultThreshold
    /\ auto_threshold = DefaultThreshold
    /\ maintenance_mode_active = FALSE
    /\ units_info = <<1>>
    /\ monitor_threads = <<1>>
    /\ threads = [t \in ThreadIds |->
                    IF t = 1 THEN [NoThread EXCEPT !.unit = 1, !.pc = "loop"]
                    ELSE NoThread]
    /\ last_fan_activation = [u \in AllUnits |-> CooldownTicks]
    /\ display = [u \in AllUnits |-> NewWidgets]
    /\ alert_acknowledged = [u \in AllUnits |-> FALSE]
    /\ bg_flash_state = [u \in AllUnits |-> FALSE]
    /\ page = "monitor"
    /\ was_monitoring_before_navigation = FALSE
    /\ pending_start = FALSE
    /\ ui = UiIdle
    /\ wire = NoWrite
    /\ since_fan_write = [u \in AllUnits |-> CooldownTicks]
    /\ config_file = DefaultThreshold
    /\ entry = <<>>
    /\ sp = SpIdle
    /\ feed = StaleFeed
    /\ cycle = 0
    /\ connection_pool = [u \in AllUnits |-> "absent"]
    /\ users = DefaultUsers
    /\ current_user = None
    /\ current_user_role = None

NextStale ==
    \/ \E t \in ThreadIds : LoopTop(t)
    \/ \E t \in ThreadIds : Connect(t, 1)
    \/ \E t \in ThreadIds : feed # <<>> /\ ReadTurbo(t, Head(feed))
    \/ \E t \in ThreadIds, r \in AckBatteryValues : ReadBattery(t, r)
    \/ \E t \in ThreadIds : ReadSetpoint(t, SetpointMin)
    \/ \E t \in ThreadIds : AutoControl(t)
    \/ \E t \in ThreadIds : FanWriteResult(t, 0)
    \/ \E t \in ThreadIds : ReadPLC(t, 0)
    \/ \E t \in ThreadIds : ReadFan(t, 0)
    \/ \E t \in ThreadIds : ReadParams(t, NormalParams)
    \/ \E t \in ThreadIds : EndCycle(t)
    \/ \E t \in ThreadIds : Wake(t)
    \/ Tick
    \/ toggle_auto_control

SpecStale == InitStale /\ [][NextStale]_vars

(***************************************************************************)
(* C27  An automatic fan write goes out only in a cycle whose own turbo    *)
(* read was answered: in a cycle whose read returned an error no           *)
(* automatic write is issued.                                              *)
(***************************************************************************)
C27_WriteOnlyOnFreshReading ==
    (wire.auto /\ cycle \in 1..Len(StaleFeed)) => StaleFeed[cycle] # Err

(***************************************************************************)
(* The threshold across restarts: the operator types into the threshold    *)
(* entry and presses Set, the configuration is saved, and the application  *)
(* is started again and loads what config.json holds.  The file is the one *)
(* the application writes: absent before the first save, which            *)
(* load_user_config answers by writing the defaults.                       *)
(***************************************************************************)
\* saved: whether the file could be written
save_user_config(saved) ==
    /\ config_file' = IF saved THEN turbo_temp_threshold ELSE config_file
    /\ UNCHANGED <<monitoring_active, auto_control_active, turbo_temp_threshold,
                   auto_threshold, maintenance_mode_active,
                   units_info, monitor_threads, threads, last_fan_activation,
                   display, alert_acknowledged, bg_flash_state, page,
                   was_monitoring_before_navigation, pending_start, ui, wire,
                   since_fan_write, entry, sp, feed, cycle,
                   connection_pool, users, current_user, current_user_role>>

\* __init__ of a new run: self.auto_threshold = 1050, nobody logged in,
\* self.load_user_config() takes the threshold from the file, and the
\* maintenance page shows it in its entry
load_user_config ==
    /\ monitoring_active = FALSE
    /\ \A t \in ThreadIds : ~is_alive(t)
    /\ turbo_temp_threshold' = config_file
    /\ auto_threshold' = DefaultThreshold
    /\ entry' = str(config_file)
    /\ current_user' = None
    /\ current_user_role' = None
    /\ UNCHANGED <<monitoring_active, auto_control_active, maintenance_mode_active,
                   units_info, monitor_threads, threads, last_fan_activation,
                   display, alert_acknowledged, bg_flash_state, page,
                   was_monitoring_before_navigation, pending_start, ui, wire,
                   since_fan_write, config_file, sp, feed, cycle,
                   connection_pool, users>>

NextConfig ==
    \/ \E c \in ThresholdAlphabet : TypeChar(c)
    \/ ClearEntry
    \/ \E saved \in BOOLEAN : set_turbo_threshold(saved)
    \/ \E saved \in BOOLEAN : save_user_config(saved)
    \/ load_user_config

SpecConfig == InitThreshold /\ [][NextConfig]_vars

C29_InactiveAfterNavigation ==
    (page = "main" /\ ui.pc = "idle")
       => (~monitoring_active /\ ~auto_control_active)

(***************************************************************************)
(* The user store: log-ins with a right or a wrong password, users         *)
(* created and deleted from the user management page, log-outs.            *)
(***************************************************************************)
Roles == {"admin", "tech", "guest"}

\* sum(1 for user in self.users.values()
\*     if user["role"] == "admin" and user.get("active", True))
admin_count ==
    Cardinality({n \in UserNames : users[n].role = "admin" /\ users[n].active})

\* a delete_user that refuses nothing but a missing user
DeleteRefusedIfMissing(username) ==
    users[username] = NoUser

\* the early returns of delete_user
DeleteRefused(username) ==
    \/ current_user_role # "admin"
    \/ username = current_user
    \/ users[username] = NoUser
    \/ (users[username].role = "admin" /\ admin_count <= 1)

UsersFrame ==
    UNCHANGED <<monitoring_active, auto_control_active, turbo_temp_threshold,
                auto_threshold, maintenance_mode_active,
                units_info, monitor_threads, threads, last_fan_activation,
                display, alert_acknowledged, bg_flash_state, page,
                was_monitoring_before_navigation, pending_start, ui, wire,
                since_fan_write, sp, feed, cycle, connection_pool>>

\* authenticate_user; verified: whether verify_password accepts the password
authenticate_user(username, verified) ==
    /\ IF users[username] # NoUser /\ users[username].active /\ verified
       THEN /\ current_user' = username
            /\ current_user_role' = users[username].role
       ELSE UNCHANGED <<current_user, current_user_role>>
    /\ UNCHANGED <<users, config_file, entry>>
    /\ UsersFrame

\* create_user; saved: whether save_user_config could write config.json
create_user(username, role, created_by_admin, saved) ==
    /\ IF \/ (~created_by_admin /\ current_user_role # "admin")
          \/ users[username] # NoUser
          \/ role \notin {"admin", "tech"}
       THEN UNCHANGED <<users, config_file>>
       ELSE /\ users' = [users EXCEPT ![username] = [role |-> role, active |-> TRUE]]
            /\ config_file' = IF saved THEN turbo_temp_threshold ELSE config_file
    /\ UNCHANGED <<current_user, current_user_role, entry>>
    /\ UsersFrame

\* delete_user
delete_user(username, saved) ==
    /\ IF DeleteRefused(username)
       THEN UNCHANGED <<users, config_file>>
       ELSE /\ users' = [users EXCEPT ![username] = NoUser]
            /\ config_file' = IF saved THEN turbo_temp_threshold ELSE config_file
    /\ UNCHANGED <<current_user, current_user_role, entry>>
    /\ UsersFrame

\* logout_user: nobody is logged in, the maintenance page is built again
logout_user ==
    /\ current_user' = None
    /\ current_user_role' = None
    /\ page' = "maintenance"
    /\ entry' = str(turbo_temp_threshold)
    /\ UNCHANGED <<monitoring_active, auto_control_active, turbo_temp_threshold,
                   auto_threshold, maintenance_mode_active,
                   units_info, monitor_threads, threads, last_fan_activation,
                   display, alert_acknowledged, bg_flash_state,
                   was_monitoring_before_navigation, pending_start, ui, wire,
                   since_fan_write, sp, feed, cycle, connection_pool,
                   users, config_file>>

NextUsers ==
    \/ \E n \in UserNames, verified \in BOOLEAN : authenticate_user(n, verified)
    \/ \E n \in UserNames, role \in Roles, by_admin, saved \in BOOLEAN :
          create_user(n, role, by_admin, saved)
    \/ \E n \in UserNames, saved \in BOOLEAN : delete_user(n, saved)
    \/ logout_user

SpecUsers == InitThreshold /\ [][NextUsers]_vars

(***************************************************************************)
(* C30  The store always holds an active administrator, and a delete_user  *)
(* called by somebody who is not an administrator, aimed at the user       *)
(* logged in, or aimed at the last administrator leaves the store as it    *)
(* was.                                                                    *)
(***************************************************************************)
C30_LastAdminRemains ==
    [][/\ admin_count' >= 1
       /\ \A n \in UserNames, saved \in BOOLEAN :
             (/\ delete_user(n, saved)
              /\ \/ current_user_role # "admin"
                 \/ n = current_user
                 \/ (users[n].role = "admin" /\ admin_count = 1))
                => users' = users]_vars

\* the default administrator has been deleted by a second one, who is
\* logged in and is now the last
C30_Witness ==
    /\ users["admin"] = NoUser
    /\ admin_count = 1
    /\ current_user_role = "admin"
    /\ users[current_user].role = "admin"
====
